---- MODULE Spec2Model ----
(***************************************************************************)
(* The chart tile pipeline and serving engine of mapbox-s57.               *)
(*                                                                         *)
(* Two server programs are modelled: the multi-chart tile server           *)
(* (loadMBTilesDatabases, startTileServer and its route handlers) and the  *)
(* older single-archive server.  Archives on disk are the output of the    *)
(* packaging command the converters run.  A route handler is synchronous   *)
(* JavaScript, so each handler is one action; what it did on the way (the  *)
(* steps it passed, the row conversions, the archive queries, the          *)
(* responses it sent) is recorded in the variable last.                    *)
(*                                                                         *)
(* Two converter programs are modelled as well: the per-chart converter    *)
(* (main and convertS57File) and the older single-archive converter        *)
(* (scripts/convert.ts).  A converter blocks on each external utility, so  *)
(* a run is a sequence of steps: discovery, one step per source file, and  *)
(* the end of the run.                                                     *)
(*                                                                         *)
(* Of the browser side three classes are modelled, each with the part of   *)
(* the map or of the timer queue it works on: LayerManager, StyleManager   *)
(* (with loadS57Tiles and updateStyle of the renderer) and                 *)
(* PerformanceMonitor.  Their methods run to completion, so each call is   *)
(* one action; a style event and a timer callback are actions of their     *)
(* own.                                                                    *)
(***************************************************************************)
EXTENDS Integers, Sequences, FiniteSets, TLC

VARIABLES
    disk,       \* dist/: the archive directory, its files, the legacy archive
    program,    \* which server program this process runs
    server,     \* "starting", "listening" or "exited"
    databases,  \* the registry: MBTilesDatabase[] in registration order
    last,       \* the most recently handled request and what its handler did
    conv,       \* a run of a converter program: its position, the files it
                \* wrote and what it did with the most recent source file
    layerManager,  \* a LayerManager and the map it manages
    styleManager,  \* the renderer's StyleManager, its map and the style
                   \* events that have not fired yet
    monitor        \* a PerformanceMonitor and the timer callbacks pending

vars == <<disk, program, server, databases, last, conv,
          layerManager, styleManager, monitor>>


(***************************************************************************)
(* Bounds of the model.                                                    *)
(***************************************************************************)
\* the most archive files the archive directory holds
MaxFiles == 2

(***************************************************************************)
(* JavaScript numbers, parseInt and the shift operator.                    *)
(***************************************************************************)
Num(v) == [nan |-> FALSE, v |-> v]

NaN == [nan |-> TRUE, v |-> 0]

Digits == <<"0", "1", "2", "3", "4", "5", "6", "7", "8", "9">>

IsDigit(c) == \E i \in 1..10 : Digits[i] = c

DigitVal(c) == (CHOOSE i \in 1..10 : Digits[i] = c) - 1

RECURSIVE StripLeft(_)
StripLeft(s) ==
    IF s # <<>> /\ Head(s) = " " THEN StripLeft(Tail(s)) ELSE s

RECURSIVE ParseDigits(_, _, _)
ParseDigits(s, acc, seen) ==
    IF s # <<>> /\ IsDigit(Head(s))
    THEN ParseDigits(Tail(s), acc * 10 + DigitVal(Head(s)), TRUE)
    ELSE [nan |-> ~seen, v |-> acc]

\* parseInt(string): leading white space, an optional sign, then the longest
\* run of decimal digits; NaN when there is no digit.  What follows the
\* digits is ignored.
parseInt(s) ==
    LET t == StripLeft(s)
        signed == t # <<>> /\ Head(t) \in {"-", "+"}
        sign == IF t # <<>> /\ Head(t) = "-" THEN -1 ELSE 1
        m == ParseDigits(IF signed THEN Tail(t) ELSE t, 0, FALSE)
    IN  IF m.nan THEN NaN ELSE Num(sign * m.v)

\* the width of the shift count of <<: the count is taken modulo 32
ShiftCountBits == 32

\* 1 << z: the count is ToUint32(z) & 31 (NaN counts as 0) and the result is
\* a signed 32-bit integer, so a count of 31 gives -2^31.
ShiftLeft1(z) ==
    LET count == IF z.nan THEN 0 ELSE z.v % ShiftCountBits
    IN  IF count = ShiftCountBits - 1 THEN (-2147483647) - 1 ELSE 2 ^ count

\* a mutant of TmsY: the row count itself instead of the last row
TmsYOffByOne(z, y) ==
    IF y.nan THEN NaN ELSE Num(ShiftLeft1(z) - y.v)

\* const tmsY = (1 << z) - 1 - y
TmsY(z, y) ==
    IF y.nan THEN NaN ELSE Num(ShiftLeft1(z) - 1 - y.v)

\* a mutant of ConvertSteps: the conversion applied a second time
ConvertStepsTwice(z, y) == <<TmsY(z, y), TmsY(z, TmsY(z, y))>>

\* The row conversions a tile handler performs between parsing the request
\* and querying the archive, in order: one.
ConvertSteps(z, y) == <<TmsY(z, y)>>

(***************************************************************************)
(* Archives: what the packaging command writes and what sql.js reads.      *)
(***************************************************************************)
\* the options of the packaging command of convertS57File
tippecanoeArgs ==
    <<"tippecanoe", "-o", "--force", "--no-tile-compression", "-z", "-Z",
      "--drop-densest-as-needed", "--extend-zooms-if-still-dropping", "-l">>

\* the options of the packaging command of the single-archive converter
tippecanoeSingleLayerCommand ==
    <<"tippecanoe", "-o", "--force", "-l", "--no-tile-compression", "-zg",
      "--drop-densest-as-needed">>

HasFlag(args, flag) == \E i \in 1..Len(args) : args[i] = flag

\* the first two bytes of a gzip stream
GzipMagic == <<31, 139>>

IsGzip(bytes) == Len(bytes) >= 2 /\ SubSeq(bytes, 1, 2) = GzipMagic

ChartId(chart) ==
    CASE chart = "alpha" -> 1 [] chart = "beta" -> 2 [] OTHER -> 3

\* the encoded vector tile of one coordinate of one chart (its first byte
\* is the tag of a layer message)
Pbf(chart, c) == <<26, ChartId(chart), c[1], c[2], c[3]>>

\* tippecanoe stores each tile gzip-compressed unless told
\* --no-tile-compression
StoredTile(args, chart, c) ==
    IF HasFlag(args, "--no-tile-compression")
    THEN Pbf(chart, c)
    ELSE GzipMagic \o Pbf(chart, c)

\* the tiles table of the archive the packaging command writes for a chart
\* whose data covers the archive coordinates coords
Package(args, chart, coords) ==
    [kind |-> "mbtiles",
     tiles |-> {[zoom_level |-> c[1], tile_column |-> c[2], tile_row |-> c[3],
                 tile_data |-> StoredTile(args, chart, c)] : c \in coords}]

\* the data extent of the model's charts, in archive (zoom, column, row)
Extent == {<<0, 0, 0>>, <<3, 0, 7>>, <<3, 1, 0>>}

\* a file that is not an SQLite database: every query throws
NotADatabase == [kind |-> "notadb", tiles |-> {}]

\* a database with a metadata table and a tiles table that lacks the
\* tile lookup columns: the validation queries succeed, the tile query throws
BadTiles == [kind |-> "badtiles", tiles |-> {}]

NoFile == [kind |-> "absent", tiles |-> {}]

ChartNames == {"alpha", "beta"}

ArchiveFiles(chart, args) ==
    {Package(args, chart, Extent), NotADatabase, BadTiles}


(***************************************************************************)
(* The registry: loadMBTilesDatabases.                                     *)
(***************************************************************************)
\* a mutant of ValidationThrows: the validation queries never throw
ValidationNeverThrows(archive) == FALSE

\* db.exec of a validation query ('SELECT name, value FROM metadata',
\* 'SELECT COUNT(*) as count FROM tiles') throws on this archive
ValidationThrows(archive) == archive.kind \notin {"mbtiles", "badtiles"}

RECURSIVE LoadFiles(_, _)
\* the per-file loop: an archive is pushed when both validation queries
\* succeed, and skipped (logged) when they throw
LoadFiles(files, acc) ==
    IF files = <<>> THEN acc
    ELSE LET file == Head(files)
             entry == [name |-> file.name,
                       db |-> file.archive,
                       filePath |-> <<"dist/mbtiles", file.name, file.ext>>]
         IN  LoadFiles(Tail(files),
                       IF ValidationThrows(file.archive)
                       THEN acc ELSE Append(acc, entry))

\* files.filter(file => file.endsWith('.mbtiles'))
MbtilesFiles(files) == SelectSeq(files, LAMBDA f : f.ext = ".mbtiles")

\* a mutant of loadMBTilesDatabases: the legacy archive is consulted also
\* when the archive directory exists and holds no archive file
loadWithFallbackWhenEmpty(d) ==
    IF ~d.dir \/ MbtilesFiles(d.files) = <<>>
    THEN IF d.legacy.kind # "absent"
         THEN <<[name |-> "s57", db |-> d.legacy,
                 filePath |-> <<"dist", "s57", ".mbtiles">>]>>
         ELSE <<>>
    ELSE LoadFiles(MbtilesFiles(d.files), <<>>)

loadMBTilesDatabases(d) ==
    IF ~d.dir
    THEN \* fall back to the single legacy archive, pushed without validation
         IF d.legacy.kind # "absent"
         THEN <<[name |-> "s57", db |-> d.legacy,
                 filePath |-> <<"dist", "s57", ".mbtiles">>]>>
         ELSE <<>>
    ELSE LoadFiles(MbtilesFiles(d.files), <<>>)

\* the file paths of the handles loadMBTilesDatabases opened with
\* new SQL.Database(fileBuffer) and did not close: it closes none, neither
\* in the catch of a failed validation nor elsewhere
OpenHandles(d) ==
    IF ~d.dir
    THEN IF d.legacy.kind # "absent"
         THEN {<<"dist", "s57", ".mbtiles">>} ELSE {}
    ELSE LET files == MbtilesFiles(d.files)
         IN  {<<"dist/mbtiles", files[i].name, files[i].ext>> :
                i \in 1..Len(files)}

(***************************************************************************)
(* Responses.                                                              *)
(***************************************************************************)
\* the headers the CORS middleware sets on every response
CorsHeaders ==
    {<<"Access-Control-Allow-Origin", "*">>,
     <<"Access-Control-Allow-Headers",
       "Origin, X-Requested-With, Content-Type, Accept">>}

\* a mutant of TileHeaders: the cache directive forgotten
TileHeadersNoCache ==
    {<<"Content-Type", "application/x-protobuf">>,
     <<"Content-Encoding", "gzip">>}

\* res.set({...}) of the tile found branch
TileHeaders ==
    {<<"Content-Type", "application/x-protobuf">>,
     <<"Content-Encoding", "gzip">>,
     <<"Cache-Control", "public, max-age=86400">>}

\* res.send(string) sends the string as text/html
TextResponse(status, text) ==
    [status |-> status,
     headers |-> CorsHeaders
                    \cup {<<"Content-Type", "text/html; charset=utf-8">>},
     text |-> text, bytes |-> <<>>, json |-> <<>>]

\* res.set(TileHeaders); res.send(Buffer.from(tileData))
TileFoundResponse(tileData) ==
    [status |-> 200, headers |-> CorsHeaders \cup TileHeaders,
     text |-> <<>>, bytes |-> tileData, json |-> <<>>]

\* res.json(body) sends the body as application/json
JsonResponse(body) ==
    [status |-> 200,
     headers |-> CorsHeaders
                    \cup {<<"Content-Type",
                             "application/json; charset=utf-8">>},
     text |-> <<>>, bytes |-> <<>>, json |-> <<body>>]

\* res.status(404).send('Tile not found')
TileNotFoundResponse == TextResponse(404, <<"Tile not found">>)

\* res.status(404).send(`Chart '${chartName}' not found`)
ChartNotFoundResponse(chartName) ==
    TextResponse(404, <<"Chart '", chartName, "' not found">>)

\* res.status(500).send('Database error')
DatabaseErrorResponse == TextResponse(500, <<"Database error">>)

\* res.status(404).send('No charts available')
NoChartsResponse == TextResponse(404, <<"No charts available">>)

(***************************************************************************)
(* The archive query.                                                      *)
(***************************************************************************)
\* 'SELECT tile_data FROM tiles WHERE zoom_level = ? AND tile_column = ?
\* AND tile_row = ?' bound to [z, x, tmsY].  sql.js binds NaN as NULL, which
\* equals no stored value.  The query throws when the archive is not a
\* database or its tiles table lacks the columns.
SelectTile(db, z, x, tmsY) ==
    IF db.kind # "mbtiles"
    THEN [threw |-> TRUE, values |-> {}]
    ELSE [threw |-> FALSE,
          values |-> IF z.nan \/ x.nan \/ tmsY.nan THEN {}
                     ELSE {t.tile_data : t \in
                             {r \in db.tiles : /\ r.zoom_level = z.v
                                               /\ r.tile_column = x.v
                                               /\ r.tile_row = tmsY.v}}]

\* what the query was asked: the archive and the three bound values
Query(chart, z, x, tmsY) ==
    [chart |-> chart, zoom_level |-> z, tile_column |-> x, tile_row |-> tmsY]

\* the row handed to the query: the result of the last conversion
QueryRow(y, rows) == (<<y>> \o rows)[Len(rows) + 1]

\* the try/catch around the query: found, not found, database error
QueryAndRespond(db, z, x, tmsY) ==
    LET result == SelectTile(db, z, x, tmsY)
    IN  IF result.threw THEN DatabaseErrorResponse
        ELSE IF result.values # {}
             THEN TileFoundResponse(CHOOSE d \in result.values : TRUE)
             ELSE TileNotFoundResponse

(***************************************************************************)
(* The route handlers of the tile server.                                  *)
(***************************************************************************)
\* a mutant of FindChart: an unknown name resolved to the first chart
FindChartOrFirst(dbs, chartName) ==
    IF \E i \in 1..Len(dbs) : dbs[i].name = chartName
    THEN CHOOSE i \in 1..Len(dbs) :
             /\ dbs[i].name = chartName
             /\ \A j \in 1..(i - 1) : dbs[j].name # chartName
    ELSE IF dbs = <<>> THEN 0 ELSE 1

\* databases.find(db => db.name === chartName): the index of the first
\* chart of that name, 0 for undefined
FindChart(dbs, chartName) ==
    IF \E i \in 1..Len(dbs) : dbs[i].name = chartName
    THEN CHOOSE i \in 1..Len(dbs) :
             /\ dbs[i].name = chartName
             /\ \A j \in 1..(i - 1) : dbs[j].name # chartName
    ELSE 0

\* a mutant of TileHandler: the return after the chart-not-found response
\* forgotten, so the handler goes on, throws inside the try on the missing
\* database and sends the database error as well
TileHandlerNoReturn(dbs, chartName, zRaw, xRaw, yRaw) ==
    LET z == parseInt(zRaw)
        x == parseInt(xRaw)
        y == parseInt(yRaw)
        database == FindChart(dbs, chartName)
        rows == ConvertSteps(z, y)
        tmsY == QueryRow(y, rows)
    IN  IF database = 0
        THEN [steps |-> <<"Parsed", "Responded", "CoordinateConverted",
                          "Responded">>,
              z |-> z, x |-> x, y |-> y, rows |-> rows, queries |-> <<>>,
              fault |-> FALSE,
              responses |-> <<ChartNotFoundResponse(chartName),
                              DatabaseErrorResponse>>]
        ELSE [steps |-> <<"Parsed", "Resolved", "CoordinateConverted",
                          "Queried", "Responded">>,
              z |-> z, x |-> x, y |-> y, rows |-> rows,
              queries |-> <<Query(dbs[database].name, z, x, tmsY)>>,
              fault |-> SelectTile(dbs[database].db, z, x, tmsY).threw,
              responses |->
                  <<QueryAndRespond(dbs[database].db, z, x, tmsY)>>]

\* app.get('/:chartName/:z/:x/:y.pbf'): what the handler does for one
\* request, from its parameters to the response
TileHandler(dbs, chartName, zRaw, xRaw, yRaw) ==
    LET z == parseInt(zRaw)
        x == parseInt(xRaw)
        y == parseInt(yRaw)
        database == FindChart(dbs, chartName)
        rows == ConvertSteps(z, y)
        tmsY == QueryRow(y, rows)
    IN  IF database = 0
        THEN [steps |-> <<"Parsed", "Responded">>,
              z |-> z, x |-> x, y |-> y, rows |-> <<>>, queries |-> <<>>,
              fault |-> FALSE,
              responses |-> <<ChartNotFoundResponse(chartName)>>]
        ELSE [steps |-> <<"Parsed", "Resolved", "CoordinateConverted",
                          "Queried", "Responded">>,
              z |-> z, x |-> x, y |-> y, rows |-> rows,
              queries |-> <<Query(dbs[database].name, z, x, tmsY)>>,
              fault |-> SelectTile(dbs[database].db, z, x, tmsY).threw,
              responses |->
                  <<QueryAndRespond(dbs[database].db, z, x, tmsY)>>]

\* the major version of express the package depends on ("^5.1.0")
ExpressMajor == 5

\* app._router is the lazily created router of express 4; express 5 has
\* app.router and no _router property
HasPrivateRouter == ExpressMajor < 5

\* The default error handler of express answers an exception thrown by a
\* route handler (here the TypeError of reading 'handle' of undefined) with
\* status 500 and an HTML error page.
UncaughtErrorResponse == TextResponse(500, <<"Internal Server Error">>)

\* app.get('/:z/:x/:y.pbf') of the tile server: the request is rewritten to
\* name the first chart and handed to app._router.handle(req, res)
LegacyHandler(dbs, zRaw, xRaw, yRaw) ==
    IF Len(dbs) = 0
    THEN [steps |-> <<"Responded">>,
          z |-> NaN, x |-> NaN, y |-> NaN, rows |-> <<>>, queries |-> <<>>,
          fault |-> FALSE, responses |-> <<NoChartsResponse>>]
    ELSE IF HasPrivateRouter
         THEN LET h == TileHandler(dbs, dbs[1].name, zRaw, xRaw, yRaw)
              IN  [h EXCEPT !.steps = <<"Redispatched">> \o h.steps]
         ELSE [steps |-> <<"Responded">>,
               z |-> NaN, x |-> NaN, y |-> NaN, rows |-> <<>>,
               queries |-> <<>>, fault |-> FALSE,
               responses |-> <<UncaughtErrorResponse>>]

(***************************************************************************)
(* The route handler of the single-archive server.                         *)
(***************************************************************************)
\* app.get('/:z/:x/:y.pbf') of the single-archive server
SimpleTileHandler(dbs, zRaw, xRaw, yRaw) ==
    LET z == parseInt(zRaw)
        x == parseInt(xRaw)
        y == parseInt(yRaw)
        tmsY == TmsY(z, y)
    IN  [steps |-> <<"Parsed", "CoordinateConverted", "Queried", "Responded">>,
         z |-> z, x |-> x, y |-> y, rows |-> <<tmsY>>,
         queries |-> <<Query(dbs[1].name, z, x, tmsY)>>,
         fault |-> SelectTile(dbs[1].db, z, x, tmsY).threw,
         responses |-> <<QueryAndRespond(dbs[1].db, z, x, tmsY)>>]

\* GET /health: the names and file paths of the registry, in order
HealthHandler(dbs) ==
    [steps |-> <<"Responded">>, z |-> NaN, x |-> NaN, y |-> NaN,
     rows |-> <<>>, queries |-> <<>>, fault |-> FALSE,
     responses |->
        <<JsonResponse([status |-> "ok",
                        charts |-> [i \in 1..Len(dbs) |->
                                      [name |-> dbs[i].name,
                                       filePath |-> dbs[i].filePath]]])>>]

\* the rows of the metadata table the packaging command writes (those that
\* do not depend on the data)
MetadataRows(db) == <<<<"format", "pbf">>, <<"type", "overlay">>>>

\* 'SELECT name, value FROM metadata' folded into an object:
\* metadataObj[row[0]] = row[1], a later row replacing an earlier one of
\* the same name
MetadataObj(db) ==
    LET rows == MetadataRows(db)
    IN  [k \in {rows[i][1] : i \in 1..Len(rows)} |->
           rows[CHOOSE i \in 1..Len(rows) :
                  /\ rows[i][1] = k
                  /\ \A j \in (i + 1)..Len(rows) : rows[j][1] # k][2]]

RECURSIVE Descending(_)
\* a mutant of Ascending: the largest first
Descending(S) ==
    IF S = {} THEN <<>>
    ELSE LET m == CHOOSE a \in S : \A b \in S : a >= b
         IN  <<m>> \o Descending(S \ {m})

RECURSIVE Ascending(_)
\* ORDER BY zoom_level
Ascending(S) ==
    IF S = {} THEN <<>>
    ELSE LET m == CHOOSE a \in S : \A b \in S : a <= b
         IN  <<m>> \o Ascending(S \ {m})

\* the entry of one chart in the chart listing: the three metadata queries
\* in a try, and the error entry of the catch (the text of its error field
\* is transliterated)
ChartListEntry(entry) ==
    IF entry.db.kind # "mbtiles"
    THEN [name |-> entry.name, error |-> "metadata unreadable"]
    ELSE [name |-> entry.name,
          metadata |-> MetadataObj(entry.db),
          tileCount |-> Cardinality(entry.db.tiles),
          zoomLevels |-> Ascending({t.zoom_level : t \in entry.db.tiles})]

\* GET /charts
ChartsHandler(dbs) ==
    [steps |-> <<"Responded">>, z |-> NaN, x |-> NaN, y |-> NaN,
     rows |-> <<>>, queries |-> <<>>, fault |-> FALSE,
     responses |->
        <<JsonResponse([i \in 1..Len(dbs) |-> ChartListEntry(dbs[i])])>>]

(***************************************************************************)
(* The requests of the model and the state machine.                        *)
(***************************************************************************)
\* the text of a zoom field of a request address.  "32" makes the shift
\* count wrap to 0.  "31" is left out: its row, -2^31 - 1 - y, lies outside
\* the 32-bit integers of TLC.
ZoomFields == {<<"0">>, <<"3">>, <<"3", "2">>, <<"a">>, <<"3", "a">>}

\* the text of a column field
ColumnFields == {<<"0">>, <<"1">>, <<"x">>}

\* the text of a row field
RowFields == {<<"0">>, <<"7">>, <<"-", "1">>}

\* the chart names a request may carry: the model's charts and an unknown one
RequestNames == ChartNames \cup {"s57", "ghost"}

\* a class of the browser side of which this process has no instance
NoComponent == [instance |-> "none"]

\* no converter runs in this process
NoConversion == [program |-> "none", phase |-> "idle"]

NoRequest ==
    [form |-> "none", chartName |-> "", zRaw |-> <<>>, xRaw |-> <<>>,
     yRaw |-> <<>>, steps |-> <<>>, z |-> NaN, x |-> NaN, y |-> NaN,
     rows |-> <<>>, queries |-> <<>>, fault |-> FALSE, responses |-> <<>>]

Handled(form, chartName, zRaw, xRaw, yRaw, h) ==
    [form |-> form, chartName |-> chartName, zRaw |-> zRaw, xRaw |-> xRaw,
     yRaw |-> yRaw, steps |-> h.steps, z |-> h.z, x |-> h.x, y |-> h.y,
     rows |-> h.rows, queries |-> h.queries, fault |-> h.fault,
     responses |-> h.responses]

\* the sequences of distinct chart names of a directory listing
NameSeqs ==
    UNION {{s \in [1..n -> ChartNames] :
              \A i, j \in 1..n : i # j => s[i] # s[j]} : n \in 0..MaxFiles}

AllArchives ==
    UNION {ArchiveFiles(c, tippecanoeArgs) : c \in ChartNames}

\* the directory listings: each file the archive the converter packaged for
\* that chart, or a file that is no usable archive
Listings ==
    UNION {{[i \in 1..Len(s) |->
               [name |-> s[i], ext |-> ".mbtiles", archive |-> a[i]]] :
            a \in {f \in [1..Len(s) -> AllArchives] :
                     \A i \in 1..Len(s) :
                        f[i] \in ArchiveFiles(s[i], tippecanoeArgs)}} :
           s \in NameSeqs}

LegacyArchives ==
    ArchiveFiles("s57", tippecanoeSingleLayerCommand) \cup {NoFile}

Disks ==
    {[dir |-> TRUE, files |-> l, legacy |-> a] :
        l \in Listings,
        a \in {NoFile, Package(tippecanoeSingleLayerCommand, "s57", Extent)}}
    \cup {[dir |-> FALSE, files |-> <<>>, legacy |-> a] : a \in LegacyArchives}

Init ==
    /\ disk \in Disks
    /\ program \in {"tile-server", "simple-server"}
    /\ program = "simple-server" => ~disk.dir
    /\ server = "starting"
    /\ databases = <<>>
    /\ last = NoRequest
    /\ conv = NoConversion
    /\ layerManager = NoComponent
    /\ styleManager = NoComponent
    /\ monitor = NoComponent

\* a mutant of startTileServer: the empty-registry exit forgotten
startTileServerAlwaysListening ==
    /\ program = "tile-server"
    /\ server = "starting"
    /\ databases' = loadMBTilesDatabases(disk)
    /\ server' = "listening"
    /\ UNCHANGED <<disk, program, last, conv,
                   layerManager, styleManager, monitor>>

\* the exit status of a server process that has ended: process.exit(1) of
\* the tile server; the single-archive server ends when its rejected
\* promise has been logged, with status 0
ExitStatus == IF program = "tile-server" THEN 1 ELSE 0

\* startTileServer of the tile server: build the registry, exit with status
\* 1 when it is empty, listen otherwise
startTileServer ==
    /\ program = "tile-server"
    /\ server = "starting"
    /\ databases' = loadMBTilesDatabases(disk)
    /\ server' = IF Len(databases') = 0 THEN "exited" ELSE "listening"
    /\ UNCHANGED <<disk, program, last, conv,
                   layerManager, styleManager, monitor>>

\* startTileServer of the single-archive server: readFile of the legacy
\* archive rejects when the file is absent and the process ends
startSimpleServer ==
    /\ program = "simple-server"
    /\ server = "starting"
    /\ IF disk.legacy.kind = "absent"
       THEN /\ server' = "exited"
            /\ UNCHANGED databases
       ELSE /\ server' = "listening"
            /\ databases' = <<[name |-> "s57", db |-> disk.legacy,
                               filePath |-> <<"dist", "s57", ".mbtiles">>]>>
    /\ UNCHANGED <<disk, program, last, conv,
                   layerManager, styleManager, monitor>>

\* a mutant of TileRequest: a chart whose query threw is dropped from the
\* registry
TileRequestEvicting ==
    /\ program = "tile-server"
    /\ server = "listening"
    /\ \E chartName \in RequestNames, zRaw \in ZoomFields,
          xRaw \in ColumnFields, yRaw \in RowFields :
          LET h == TileHandler(databases, chartName, zRaw, xRaw, yRaw)
          IN  /\ last' = Handled("explicit", chartName, zRaw, xRaw, yRaw, h)
              /\ databases' =
                    IF h.fault
                    THEN SelectSeq(databases, LAMBDA e : e.name # chartName)
                    ELSE databases
    /\ UNCHANGED <<disk, program, server, conv,
                   layerManager, styleManager, monitor>>

\* GET /{chartName}/{z}/{x}/{y}.pbf
TileRequest ==
    /\ program = "tile-server"
    /\ server = "listening"
    /\ \E chartName \in RequestNames, zRaw \in ZoomFields,
          xRaw \in ColumnFields, yRaw \in RowFields :
          last' = Handled("explicit", chartName, zRaw, xRaw, yRaw,
                          TileHandler(databases, chartName, zRaw, xRaw, yRaw))
    /\ UNCHANGED <<disk, program, server, databases, conv,
                   layerManager, styleManager, monitor>>

\* GET /{z}/{x}/{y}.pbf on the tile server
LegacyTileRequest ==
    /\ program = "tile-server"
    /\ server = "listening"
    /\ \E zRaw \in ZoomFields, xRaw \in ColumnFields, yRaw \in RowFields :
          last' = Handled("legacy", "", zRaw, xRaw, yRaw,
                          LegacyHandler(databases, zRaw, xRaw, yRaw))
    /\ UNCHANGED <<disk, program, server, databases, conv,
                   layerManager, styleManager, monitor>>

\* GET /{z}/{x}/{y}.pbf on the single-archive server
SimpleTileRequest ==
    /\ program = "simple-server"
    /\ server = "listening"
    /\ \E zRaw \in ZoomFields, xRaw \in ColumnFields, yRaw \in RowFields :
          last' = Handled("simple", "", zRaw, xRaw, yRaw,
                          SimpleTileHandler(databases, zRaw, xRaw, yRaw))
    /\ UNCHANGED <<disk, program, server, databases, conv,
                   layerManager, styleManager, monitor>>

\* GET /health on the tile server
HealthRequest ==
    /\ program = "tile-server"
    /\ server = "listening"
    /\ last' = Handled("health", "", <<>>, <<>>, <<>>, HealthHandler(databases))
    /\ UNCHANGED <<disk, program, server, databases, conv,
                   layerManager, styleManager, monitor>>

\* GET /charts on the tile server
ChartsRequest ==
    /\ program = "tile-server"
    /\ server = "listening"
    /\ last' = Handled("charts", "", <<>>, <<>>, <<>>, ChartsHandler(databases))
    /\ UNCHANGED <<disk, program, server, databases, conv,
                   layerManager, styleManager, monitor>>

Next ==
    \/ startTileServer
    \/ startSimpleServer
    \/ TileRequest
    \/ LegacyTileRequest
    \/ SimpleTileRequest
    \/ HealthRequest
    \/ ChartsRequest

Spec == Init /\ [][Next]_vars

(***************************************************************************)
(* The converters: what the external utilities do with a source file.      *)
(***************************************************************************)
\* the most layers a source file holds
MaxLayers == 2

\* the layers of a source file, in the order ogrinfo lists them
LayerNames == <<"DEPARE", "SOUNDG", "COALNE">>

\* the line numbers ogrinfo puts before the layers
LayerNumbers == <<"1:", "2:", "3:">>

\* what ogr2ogr does with one layer: it writes a feature collection with
\* features, it writes one without features, it exits with an error, or it
\* writes a file that is not JSON
Outcomes == {"features", "empty", "fails", "garbled"}

\* a source file as the utilities see it: whether ogrinfo fails on it, its
\* layers with what ogr2ogr does with each, and whether tippecanoe fails
Sources ==
    {[ogrinfoFails |-> TRUE, layers |-> <<>>, tippecanoeFails |-> FALSE]}
    \cup UNION {{[ogrinfoFails |-> FALSE,
                  layers |-> [i \in 1..n |->
                                [layer |-> LayerNames[i], outcome |-> o[i]]],
                  tippecanoeFails |-> t] :
                 o \in [1..n -> Outcomes], t \in BOOLEAN} : n \in 0..MaxLayers}

Range(seq) == {seq[i] : i \in 1..Len(seq)}

\* the output of `ogrinfo -so`, split into lines and each line at its
\* spaces: two heading lines, then one numbered line per layer
OgrinfoOutput(source) ==
    <<<<"INFO:", "Open", "of">>, <<"using", "driver", "`S57'", "successful.">>>>
    \o [i \in 1..Len(source.layers) |->
          <<LayerNumbers[i], source.layers[i].layer, "(Polygon)">>]

\* line.match(/^\d+: /)
IsLayerLine(line) ==
    /\ Len(line) >= 2
    /\ \E i \in 1..Len(LayerNumbers) : line[1] = LayerNumbers[i]

\* info.split("\n").filter(...).map(line => line.split(" ")[1])
ParseLayers(info) ==
    LET layerLines == SelectSeq(info, IsLayerLine)
    IN  [i \in 1..Len(layerLines) |-> layerLines[i][2]]

\* what ogr2ogr does with the layer of that name
OutcomeOf(source, layer) ==
    LET i == CHOOSE k \in 1..Len(source.layers) :
                source.layers[k].layer = layer
    IN  source.layers[i].outcome

NoProperties == [k \in {} |-> ""]

\* the features ogr2ogr writes for a layer that has features: one with
\* attributes, one without a properties object, and one that already has
\* attributes named layer and chart
FeaturesOf(layer) ==
    <<[hasProperties |-> TRUE,
       properties |-> [RCID |-> "1", OBJL |-> layer]],
      [hasProperties |-> FALSE, properties |-> NoProperties],
      [hasProperties |-> TRUE,
       properties |-> [RCID |-> "3", layer |-> "base", chart |-> "inset"]]>>

\* what ogr2ogr leaves in the GeoJSON file of the layer
OgrOutput(outcome, layer) ==
    [parseable |-> outcome # "garbled",
     features |-> IF outcome = "features" THEN FeaturesOf(layer) ELSE <<>>]

\* a GeoJSON file of the intermediate directory
GeojsonFile(chart, layer, content) ==
    [chart |-> chart, layer |-> layer, parseable |-> content.parseable,
     features |-> content.features]

\* fs.writeFileSync and the file ogr2ogr writes: the file replaces one of
\* the same path
WriteFile(files, f) ==
    {g \in files : ~(g.chart = f.chart /\ g.layer = f.layer)} \cup {f}

\* fs.unlinkSync(geojsonFile)
Unlink(files, chart, layer) ==
    {g \in files : ~(g.chart = chart /\ g.layer = layer)}

\* feature.properties, an empty object put in place of a missing one
PropertiesOf(feature) ==
    IF feature.hasProperties THEN feature.properties ELSE NoProperties

\* the provenance tagging of convertS57File: feature.properties.layer =
\* layer; feature.properties.chart = s57FileName
TagFeature(feature, layer, chart) ==
    LET p == PropertiesOf(feature)
    IN  [hasProperties |-> TRUE,
         properties |-> [k \in DOMAIN p \cup {"layer", "chart"} |->
                           IF k = "layer" THEN layer
                           ELSE IF k = "chart" THEN chart ELSE p[k]]]

\* the provenance tagging of the single-archive converter:
\* feature.properties.layer = layer
TagFeatureLayerOnly(feature, layer) ==
    LET p == PropertiesOf(feature)
    IN  [hasProperties |-> TRUE,
         properties |-> [k \in DOMAIN p \cup {"layer"} |->
                           IF k = "layer" THEN layer ELSE p[k]]]

\* the directory a path string names, as its components
PathOf(p) ==
    CASE p = "dist" -> <<"dist">>
      [] p = "dist/mbtiles" -> <<"dist", "mbtiles">>
      [] p = "dist/geojson" -> <<"dist", "geojson">>
      [] p = "dist/tiles" -> <<"dist", "tiles">>
      [] p = "data/s57" -> <<"data", "s57">>
      [] OTHER -> <<p>>

\* const s57DataDir, outputDir, mbtilesDir, geojsonDir
s57DataDir == "data/s57"
outputDir == "dist"
mbtilesDir == "dist/mbtiles"
geojsonDir == "dist/geojson"

\* the directory p is the directory o or lies below it
Under(p, o) == Len(o) <= Len(p) /\ SubSeq(p, 1, Len(o)) = o

(***************************************************************************)
(* The per-chart converter: convertS57File.                                *)
(***************************************************************************)
\* the state of one extraction loop: the intermediate files on disk, the
\* list for the packaging command, the files tagged and written, the layers
\* ogr2ogr was run for, and the number of utility invocations
LoopStart(files, utilities) ==
    [files |-> files, geojsonFiles |-> <<>>, written |-> <<>>,
     extracted |-> <<>>, utilities |-> utilities]

RECURSIVE ExtractLayers(_, _, _, _, _)
\* for (const layer of layers) { try { ... } catch { log } }: a layer whose
\* extraction or parsing throws is logged and the loop goes on; a layer
\* with features is tagged, written and pushed; a layer without features is
\* unlinked
ExtractLayers(chart, source, layers, i, st) ==
    IF i > Len(layers) THEN st
    ELSE LET layer == layers[i]
             outcome == OutcomeOf(source, layer)
             raw == GeojsonFile(chart, layer, OgrOutput(outcome, layer))
             ran == [st EXCEPT !.extracted = Append(@, layer),
                               !.utilities = @ + 1]
             tagged == [raw EXCEPT !.features =
                          [k \in 1..Len(raw.features) |->
                             TagFeature(raw.features[k], layer, chart)]]
         IN  ExtractLayers(chart, source, layers, i + 1,
               CASE outcome = "fails" -> ran
                 [] outcome = "garbled" ->
                      [ran EXCEPT !.files = WriteFile(@, raw)]
                 [] outcome = "empty" ->
                      [ran EXCEPT !.files =
                         Unlink(WriteFile(@, raw), chart, layer)]
                 [] OTHER ->
                      [ran EXCEPT !.files = WriteFile(@, tagged),
                                  !.geojsonFiles = Append(@, tagged),
                                  !.written = Append(@, tagged)])

\* a mutant of RemoveChartDir: the directory is left in place
KeepChartDir(files, chart, options) == files

\* finally { if (!outputOptions.keepGeojson && fs.existsSync(chartGeojsonDir))
\* fs.rmSync(chartGeojsonDir, { recursive: true, force: true }) }
RemoveChartDir(files, chart, options) ==
    IF ~options.keepGeojson
    THEN {g \in files : g.chart # chart}
    ELSE files

\* one invocation of the packaging command
PackagingCall(args, output, layerName, files) ==
    [args |-> args, output |-> output, layerName |-> layerName,
     files |-> files]

\* a mutant of chartMbtilesFile: one archive name for every chart
sharedMbtilesFile(chart) == <<"dist/mbtiles", "s57", ".mbtiles">>

\* path.join(mbtilesDir, `${s57FileName}.mbtiles`)
chartMbtilesFile(chart) == <<"dist/mbtiles", chart, ".mbtiles">>

\* path.join(geojsonDir, s57FileName)
chartGeojsonDir(chart) == Append(PathOf(geojsonDir), chart)

\* what the run knows of the source file it handled last
FileLog(chart, source, enumerated, layers, st, packaged) ==
    [chart |-> chart, source |-> source, enumerated |-> enumerated,
     layers |-> layers, extracted |-> st.extracted,
     geojsonFiles |-> st.geojsonFiles, written |-> st.written,
     packaged |-> packaged]

NoFileLog ==
    [chart |-> "", source |-> [ogrinfoFails |-> FALSE, layers |-> <<>>,
                               tippecanoeFails |-> FALSE],
     enumerated |-> FALSE, layers |-> <<>>, extracted |-> <<>>,
     geojsonFiles |-> <<>>, written |-> <<>>, packaged |-> FALSE]

\* convertS57File: enumerate the layers, extract each, package the list
\* when it is not empty, and remove the chart's intermediate directory.
\* Every error is caught inside; the function returns normally.
convertS57File(c, chart, source) ==
    IF source.ogrinfoFails
    THEN [c EXCEPT
            !.touched = @ \cup {chartGeojsonDir(chart)},
            !.utilities = @ + 1,
            !.failed = @ \cup {chart},
            !.geojson = RemoveChartDir(@, chart, c.options),
            !.cur = FileLog(chart, source, FALSE, <<>>,
                            LoopStart(c.geojson, 0), FALSE)]
    ELSE LET layers == ParseLayers(OgrinfoOutput(source))
             st == ExtractLayers(chart, source, layers, 1,
                                 LoopStart(c.geojson, c.utilities + 1))
             packaged == st.geojsonFiles # <<>>
             call == PackagingCall(tippecanoeArgs, chartMbtilesFile(chart),
                                   chart, st.geojsonFiles)
         IN  [c EXCEPT
                !.touched = @ \cup {chartGeojsonDir(chart)}
                              \cup (IF packaged
                                    THEN {PathOf(chartMbtilesFile(chart)[1])}
                                    ELSE {}),
                !.utilities = st.utilities + (IF packaged THEN 1 ELSE 0),
                !.packaging = IF packaged THEN Append(@, call) ELSE @,
                !.archives = IF packaged /\ ~source.tippecanoeFails
                             THEN @ \cup {chartMbtilesFile(chart)} ELSE @,
                !.failed = IF packaged /\ source.tippecanoeFails
                           THEN @ \cup {chart} ELSE @,
                !.geojson = RemoveChartDir(st.files, chart, c.options),
                !.cur = FileLog(chart, source, TRUE, layers, st, packaged)]

(***************************************************************************)
(* The single-archive converter: the per-file loop of scripts/convert.ts.  *)
(***************************************************************************)
RECURSIVE ExtractLayersUnguarded(_, _, _, _, _)
\* the layer loop inside the per-file try: a layer whose extraction or
\* parsing throws ends the loop (the catch is around the whole file); every
\* other layer, empty or not, is tagged with its layer name, written and
\* pushed
ExtractLayersUnguarded(chart, source, layers, i, st) ==
    IF i > Len(layers) THEN st
    ELSE LET layer == layers[i]
             outcome == OutcomeOf(source, layer)
             raw == GeojsonFile(chart, layer, OgrOutput(outcome, layer))
             ran == [st EXCEPT !.extracted = Append(@, layer),
                               !.utilities = @ + 1]
             tagged == [raw EXCEPT !.features =
                          [k \in 1..Len(raw.features) |->
                             TagFeatureLayerOnly(raw.features[k], layer)]]
         IN  CASE outcome = "fails" -> ran
               [] outcome = "garbled" ->
                    [ran EXCEPT !.files = WriteFile(@, raw)]
               [] OTHER ->
                    ExtractLayersUnguarded(chart, source, layers, i + 1,
                       [ran EXCEPT !.files = WriteFile(@, tagged),
                                   !.geojsonFiles = Append(@, tagged),
                                   !.written = Append(@, tagged)])

\* the body of the per-file loop: try { ogrinfo; the layer loop } catch
convertFile(c, chart, source) ==
    IF source.ogrinfoFails
    THEN [c EXCEPT
            !.utilities = @ + 1,
            !.failed = @ \cup {chart},
            !.cur = FileLog(chart, source, FALSE, <<>>,
                            LoopStart(c.geojson, 0), FALSE)]
    ELSE LET layers == ParseLayers(OgrinfoOutput(source))
             st == ExtractLayersUnguarded(chart, source, layers, 1,
                                 LoopStart(c.geojson, c.utilities + 1))
         IN  [c EXCEPT
                !.utilities = st.utilities,
                !.geojson = st.files,
                !.geojsonFiles = @ \o st.geojsonFiles,
                !.cur = FileLog(chart, source, TRUE, layers, st, FALSE)]

\* const mbtilesFile = path.join(outputDir, "s57.mbtiles")
mbtilesFile == <<"dist", "s57", ".mbtiles">>

(***************************************************************************)
(* The runs of the converters.                                             *)
(***************************************************************************)
SourceNames == <<"US1", "US2">>

\* the input directory: absent, or its listing in readdir order
InputDirs ==
    {[present |-> FALSE, files |-> <<>>],
     [present |-> TRUE, files |-> <<>>],
     [present |-> TRUE, files |-> <<[name |-> "notes", ext |-> ".txt"]>>],
     [present |-> TRUE, files |-> <<[name |-> SourceNames[1], ext |-> ".000"]>>],
     [present |-> TRUE,
      files |-> <<[name |-> SourceNames[1], ext |-> ".000"],
                  [name |-> "notes", ext |-> ".txt"],
                  [name |-> SourceNames[2], ext |-> ".000"]>>]}

\* readdirSync(...).filter(file => file.endsWith(".000")), as chart names
S57Files(input) ==
    LET eligible == SelectSeq(input.files, LAMBDA f : f.ext = ".000")
    IN  [i \in 1..Len(eligible) |-> eligible[i].name]

Converters == {"convert-s57", "convert"}

\* args[++i]: the argument after the option, undefined past the end
ArgAfter(args, i) == IF i + 1 <= Len(args) THEN args[i + 1] ELSE "undefined"

RECURSIVE ParseArgsFrom(_, _, _)
\* the loop of parseArgs: an option with a value takes the next argument,
\* --keep-geojson takes none, anything else is passed over
ParseArgsFrom(args, i, options) ==
    IF i > Len(args) THEN options
    ELSE CASE args[i] \in {"--input", "-i"} ->
                ParseArgsFrom(args, i + 2,
                   [options EXCEPT !.input = ArgAfter(args, i)])
           [] args[i] \in {"--output", "-o"} ->
                ParseArgsFrom(args, i + 2,
                   [options EXCEPT !.output = ArgAfter(args, i)])
           [] args[i] \in {"--format", "-f"} ->
                ParseArgsFrom(args, i + 2,
                   [options EXCEPT !.format = ArgAfter(args, i)])
           [] args[i] = "--keep-geojson" ->
                ParseArgsFrom(args, i + 1,
                   [options EXCEPT !.keepGeojson = TRUE])
           [] OTHER -> ParseArgsFrom(args, i + 1, options)

\* the options main starts from: input s57DataDir, output outputDir,
\* format mbtiles (keepGeojson undefined counts as false)
DefaultOptions ==
    [input |-> s57DataDir, output |-> outputDir, format |-> "mbtiles",
     keepGeojson |-> FALSE]

parseArgs(args) == ParseArgsFrom(args, 1, DefaultOptions)

\* the command lines of the model
ArgLists ==
    {<<>>,
     <<"--keep-geojson">>,
     <<"--input", "data/s57", "--output", "dist/tiles">>,
     <<"-o", "out", "--keep-geojson">>}

\* the options a converter works with: the single-archive converter reads
\* no argument and works with its constants
OptionsOf(converter, args) ==
    IF converter = "convert-s57" THEN parseArgs(args) ELSE DefaultOptions

\* a converter process at its start, the output directory empty
ConversionStart(converter, args, input) ==
    [program |-> converter, phase |-> "start",
     args |-> args, options |-> OptionsOf(converter, args), touched |-> {},
     input |-> input, s57Files |-> <<>>, next |-> 1,
     geojson |-> {}, archives |-> {}, geojsonFiles |-> <<>>,
     packaging |-> <<>>, cur |-> NoFileLog, done |-> <<>>, failed |-> {},
     successCount |-> 0, utilities |-> 0, uncaught |-> FALSE,
     reported |-> FALSE]

\* the output directory removed and made again, then source discovery:
\* readdirSync is not in a try, so an absent input directory throws out of
\* main; no eligible file is reported and main returns
Discover(c) ==
    LET output == PathOf(c.options.output)
        made == IF c.program = "convert-s57"
                THEN {output, PathOf(mbtilesDir), PathOf(geojsonDir)}
                ELSE {output, PathOf(geojsonDir)}
        prepared ==
           [c EXCEPT !.touched = @ \cup made,
                     !.geojson = IF Under(PathOf(geojsonDir), output)
                                 THEN {} ELSE @,
                     !.archives = {a \in @ : ~Under(PathOf(a[1]), output)}]
    IN  IF ~c.input.present
        THEN [prepared EXCEPT !.phase = "crashed", !.uncaught = TRUE]
        ELSE LET found == S57Files(c.input)
             IN  [prepared EXCEPT
                    !.phase = IF found = <<>> THEN "done" ELSE "files",
                    !.reported = found = <<>>,
                    !.s57Files = found]

\* a mutant of BatchAdvance: the batch ends at the first chart that failed
BatchStopOnFailure(c) ==
    IF c.failed # {} THEN Len(c.s57Files) + 1 ELSE c.next + 1

\* for (const s57File of s57Files): the loop goes to the next file whatever
\* happened to this one
BatchAdvance(c) == c.next + 1

InitConvert ==
    /\ disk = [dir |-> FALSE, files |-> <<>>, legacy |-> NoFile]
    /\ program = "converter"
    /\ server = "starting"
    /\ databases = <<>>
    /\ last = NoRequest
    /\ layerManager = NoComponent
    /\ styleManager = NoComponent
    /\ monitor = NoComponent
    /\ \E converter \in Converters, args \in ArgLists, input \in InputDirs :
          /\ converter = "convert" => "--keep-geojson" \notin Range(args)
          /\ conv = ConversionStart(converter, args, input)

\* main of the per-chart converter, up to the batch loop
main ==
    /\ conv.program = "convert-s57"
    /\ conv.phase = "start"
    /\ conv' = Discover(conv)
    /\ UNCHANGED <<disk, program, server, databases, last,
                   layerManager, styleManager, monitor>>

\* one turn of the batch loop: try { convertS57File(...); successCount++ }
convertNextFile ==
    /\ conv.program = "convert-s57"
    /\ conv.phase = "files"
    /\ conv.next <= Len(conv.s57Files)
    /\ \E source \in Sources :
          LET chart == conv.s57Files[conv.next]
              c == convertS57File(conv, chart, source)
          IN  conv' = [c EXCEPT !.done = Append(@, chart),
                                !.successCount = @ + 1,
                                !.next = BatchAdvance(c)]
    /\ UNCHANGED <<disk, program, server, databases, last,
                   layerManager, styleManager, monitor>>

\* the end of main: if (!options.keepGeojson && fs.existsSync(geojsonDir))
\* fs.rmSync(geojsonDir, ...), then the report
mainCleanup ==
    /\ conv.program = "convert-s57"
    /\ conv.phase = "files"
    /\ conv.next > Len(conv.s57Files)
    /\ conv' = [conv EXCEPT !.phase = "done",
                            !.reported = TRUE,
                            !.geojson = IF conv.options.keepGeojson
                                        THEN @ ELSE {}]
    /\ UNCHANGED <<disk, program, server, databases, last,
                   layerManager, styleManager, monitor>>

\* main of the single-archive converter, up to the file loop
convertMain ==
    /\ conv.program = "convert"
    /\ conv.phase = "start"
    /\ conv' = Discover(conv)
    /\ UNCHANGED <<disk, program, server, databases, last,
                   layerManager, styleManager, monitor>>

\* one turn of the file loop of the single-archive converter
convertMainNextFile ==
    /\ conv.program = "convert"
    /\ conv.phase = "files"
    /\ conv.next <= Len(conv.s57Files)
    /\ \E source \in Sources :
          LET chart == conv.s57Files[conv.next]
              c == convertFile(conv, chart, source)
          IN  conv' = [c EXCEPT !.done = Append(@, chart),
                                !.next = @ + 1]
    /\ UNCHANGED <<disk, program, server, databases, last,
                   layerManager, styleManager, monitor>>

\* steps 3 and 4 of the single-archive converter: one packaging command for
\* every pushed file when there is one, then fs.rmSync(geojsonDir, ...)
convertMainPackage ==
    /\ conv.program = "convert"
    /\ conv.phase = "files"
    /\ conv.next > Len(conv.s57Files)
    /\ \E tippecanoeFails \in BOOLEAN :
          LET packaged == conv.geojsonFiles # <<>>
              call == PackagingCall(tippecanoeSingleLayerCommand, mbtilesFile,
                                    "s57", conv.geojsonFiles)
          IN  /\ ~packaged => ~tippecanoeFails
              /\ conv' = [conv EXCEPT
                    !.phase = "done",
                    !.reported = TRUE,
                    !.utilities = @ + (IF packaged THEN 1 ELSE 0),
                    !.packaging = IF packaged THEN Append(@, call) ELSE @,
                    !.archives = IF packaged /\ ~tippecanoeFails
                                 THEN @ \cup {mbtilesFile} ELSE @,
                    !.geojson = {}]
    /\ UNCHANGED <<disk, program, server, databases, last,
                   layerManager, styleManager, monitor>>

NextConvert ==
    \/ main
    \/ convertNextFile
    \/ mainCleanup
    \/ convertMain
    \/ convertMainNextFile
    \/ convertMainPackage

SpecConvert == InitConvert /\ [][NextConvert]_vars

(***************************************************************************)
(* Vocabulary of the properties.                                           *)
(***************************************************************************)
\* the text of a non-negative integer: one or more decimal digits
IsNonNegInt(raw) == raw # <<>> /\ \A i \in 1..Len(raw) : IsDigit(raw[i])

\* the integer a non-negative integer text denotes
IntOf(raw) == ParseDigits(raw, 0, FALSE).v

WellFormed(r) == IsNonNegInt(r.zRaw) /\ IsNonNegInt(r.xRaw) /\ IsNonNegInt(r.yRaw)

IsTileRequest(r) == r.form \in {"explicit", "legacy", "simple"}

RECURSIVE IsPowerOfTwo(_, _)
\* n = 2^z, computed by halving so that no power beyond the 32-bit integers
\* of TLC is formed
IsPowerOfTwo(n, z) ==
    IF z = 0 THEN n = 1
    ELSE n > 0 /\ n % 2 = 0 /\ IsPowerOfTwo(n \div 2, z - 1)

\* y < 2^z, for the rows of the model (all below 2^31)
BelowPowerOfTwo(y, z) == z >= 31 \/ y < 2 ^ z

\* the archive of the registry a query was sent to
ArchiveOf(chart) ==
    databases[CHOOSE i \in 1..Len(databases) : databases[i].name = chart].db

\* the payloads the archive stores at the coordinate a query asked for
StoredAt(q) ==
    IF q.zoom_level.nan \/ q.tile_column.nan \/ q.tile_row.nan THEN {}
    ELSE {t.tile_data : t \in
            {r \in ArchiveOf(q.chart).tiles :
                /\ r.zoom_level = q.zoom_level.v
                /\ r.tile_column = q.tile_column.v
                /\ r.tile_row = q.tile_row.v}}

Registered(chartName) ==
    \E i \in 1..Len(databases) : databases[i].name = chartName

HeaderNames(r) == {h[1] : h \in r.headers}

(***************************************************************************)
(* Properties of the tile serving engine.                                  *)
(***************************************************************************)
\* C1: for every tile request with integer z >= 0, column x and slippy row
\* y, the coordinate queried in the archive is (zoom_level = z,
\* tile_column = x, tile_row = (2^z - 1) - y), with a true power of two for
\* every z and the column unchanged.
C1_QueriedCoordinate ==
    (IsTileRequest(last) /\ WellFormed(last)) =>
        \A i \in 1..Len(last.queries) :
            LET q == last.queries[i]
            IN  /\ q.zoom_level = Num(IntOf(last.zRaw))
                /\ q.tile_column = Num(IntOf(last.xRaw))
                /\ ~q.tile_row.nan
                /\ IsPowerOfTwo(q.tile_row.v + IntOf(last.yRaw) + 1,
                                IntOf(last.zRaw))

\* C2: the row transform is an involution: for z >= 0 and 0 <= y < 2^z the
\* conversion applied to the converted row gives y back; z=0,y=0 maps to 0,
\* z=3,y=0 maps to 7 and z=3,y=7 maps to 0.
C2_RowInvolution ==
    (/\ IsTileRequest(last) /\ last.rows # <<>>
     /\ IsNonNegInt(last.zRaw) /\ IsNonNegInt(last.yRaw)
     /\ BelowPowerOfTwo(IntOf(last.yRaw), IntOf(last.zRaw))) =>
        LET z == IntOf(last.zRaw)
            y == IntOf(last.yRaw)
            row == last.rows[1]
        IN  /\ TmsY(Num(z), row) = Num(y)
            /\ (z = 0 /\ y = 0) => row = Num(0)
            /\ (z = 3 /\ y = 0) => row = Num(7)
            /\ (z = 3 /\ y = 7) => row = Num(0)

\* C2's case: a request at z=3, y=0 whose row was converted to 7
C2_Witness ==
    /\ last.form = "explicit"
    /\ last.zRaw = <<"3">> /\ last.yRaw = <<"0">>
    /\ last.rows = <<Num(7)>>

\* C3: on every path from a tile request of either address form to the
\* archive query the row transform is applied exactly once; the legacy
\* handler performs no transform of its own and reaches the query only
\* through the explicit-form handler.
C3_TransformOnce ==
    (last.form \in {"explicit", "legacy"}) =>
        /\ last.queries # <<>> =>
              /\ Len(last.rows) = 1
              /\ Len(last.queries) = 1
              /\ last.queries[1].tile_row = TmsY(last.z, last.y)
              /\ Cardinality({i \in 1..Len(last.steps) :
                               last.steps[i] = "CoordinateConverted"}) = 1
              /\ last.form = "legacy" => Head(last.steps) = "Redispatched"
        /\ last.queries = <<>> => last.rows = <<>>

\* C3's case: an explicit request that reached the archive query
C3_Witness ==
    /\ last.form = "explicit"
    /\ Len(last.queries) = 1
    /\ Len(last.rows) = 1
    /\ last.yRaw = <<"7">> /\ last.zRaw = <<"3">>

\* C4: with charts registered in the order [alpha, beta], a legacy-form
\* request has the same outcome (status, headers, payload) as the explicit
\* request for alpha at the same coordinate.
C4_LegacyEqualsExplicit ==
    (/\ last.form = "legacy"
     /\ Len(databases) = 2
     /\ databases[1].name = "alpha" /\ databases[2].name = "beta") =>
        last.responses =
            TileHandler(databases, "alpha",
                        last.zRaw, last.xRaw, last.yRaw).responses

\* C5: an explicit request for a registered chart whose archive answers the
\* query and stores no tile at the queried coordinate gets TileNotFound; a
\* request naming an unregistered chart gets ChartNotFound, before any
\* archive is queried; the two responses differ.
C5_ChartNotFoundVsTileNotFound ==
    (last.form = "explicit") =>
        /\ ~Registered(last.chartName) =>
              /\ last.responses = <<ChartNotFoundResponse(last.chartName)>>
              /\ last.queries = <<>>
              /\ last.responses # <<TileNotFoundResponse>>
        /\ (/\ Registered(last.chartName)
            /\ ArchiveOf(last.chartName).kind = "mbtiles"
            /\ \A i \in 1..Len(last.queries) : StoredAt(last.queries[i]) = {})
           => /\ last.responses = <<TileNotFoundResponse>>
              /\ last.responses # <<ChartNotFoundResponse(last.chartName)>>

\* C5's case: a registered chart asked for a coordinate outside its extent
C5_Witness ==
    /\ last.form = "explicit"
    /\ Registered(last.chartName)
    /\ ArchiveOf(last.chartName).kind = "mbtiles"
    /\ WellFormed(last)
    /\ last.responses = <<TileNotFoundResponse>>

\* C6: a tile request whose z, x or y field is not a non-negative integer
\* gets a 4xx response, never reaches the archive query and is answered
\* neither as TileNotFound nor as a tile nor with a 5xx.
C6_MalformedIsClientError ==
    (IsTileRequest(last) /\ ~WellFormed(last)) =>
        /\ last.queries = <<>>
        /\ Len(last.responses) = 1
        /\ last.responses[1].status \in 400..499
        /\ last.responses[1] # TileNotFoundResponse

\* C7: whenever the archive holds a tile at the converted coordinate the
\* response is a success with exactly the stored bytes, a vector-tile
\* content type, a content-encoding marker and a long-lived cache
\* directive; no success is sent without all three.
C7_TileFound ==
    IsTileRequest(last) =>
        /\ \A i \in 1..Len(last.queries) :
              StoredAt(last.queries[i]) # {} =>
                  /\ Len(last.responses) = 1
                  /\ last.responses[1].status = 200
                  /\ last.responses[1].bytes \in StoredAt(last.queries[i])
        /\ \A i \in 1..Len(last.responses) :
              last.responses[i].status = 200 =>
                  /\ <<"Content-Type", "application/x-protobuf">>
                         \in last.responses[i].headers
                  /\ "Content-Encoding" \in HeaderNames(last.responses[i])
                  /\ <<"Cache-Control", "public, max-age=86400">>
                         \in last.responses[i].headers
                  /\ Len(last.queries) = 1
                  /\ last.responses[i].bytes \in StoredAt(last.queries[1])

\* C7's case: the tile of alpha at slippy 3/0/0 served from archive row 7
C7_Witness ==
    /\ last.form = "explicit"
    /\ Len(last.responses) = 1
    /\ last.responses[1].status = 200
    /\ last.responses[1].bytes = Pbf("alpha", <<3, 0, 7>>)

\* C8: every tile the converter packaged and the endpoint serves with a
\* gzip content-encoding marker is stored gzip-compressed in the archive.
C8_EncodingMatchesStorage ==
    IsTileRequest(last) =>
        \A i \in 1..Len(last.responses) :
            (/\ last.responses[i].status = 200
             /\ <<"Content-Encoding", "gzip">> \in last.responses[i].headers)
            => IsGzip(last.responses[i].bytes)

\* C9: a failing archive query is answered with the 5xx StorageError, the
\* server keeps serving with its registry unchanged, and nothing but a
\* storage fault is answered with a 5xx.
C9_StorageErrorOnly ==
    IsTileRequest(last) =>
        /\ last.fault => last.responses = <<DatabaseErrorResponse>>
        /\ server = "listening"
        /\ program = "tile-server" => databases = loadMBTilesDatabases(disk)
        /\ \A i \in 1..Len(last.responses) :
              last.responses[i].status >= 500 => last.fault

\* C10: when the resolved chart has no tile at the converted coordinate the
\* response is a not-found status that carries no payload.
C10_NotFoundNoPayload ==
    (/\ IsTileRequest(last) /\ last.queries # <<>> /\ ~last.fault
     /\ \A i \in 1..Len(last.queries) : StoredAt(last.queries[i]) = {}) =>
        /\ Len(last.responses) = 1
        /\ last.responses[1].status = 404
        /\ last.responses[1].text = <<>>
        /\ last.responses[1].bytes = <<>>

(***************************************************************************)
(* Properties of the registry.                                             *)
(***************************************************************************)
\* both open-time validation queries succeed on the archive
PassesValidation(archive) == archive.kind \in {"mbtiles", "badtiles"}

\* the registry has been built by the tile server
RegistryBuilt == program = "tile-server" /\ server # "starting"

\* C11: chart isolation: for a directory in which some archives are valid
\* and some fail validation, the registry build completes and holds exactly
\* the charts of the valid archives, each once, in the order the files were
\* visited, whatever that order is.
C11_ChartIsolation ==
    (RegistryBuilt /\ disk.dir) =>
        LET valid == SelectSeq(disk.files,
                               LAMBDA f : PassesValidation(f.archive))
        IN  /\ server \in {"listening", "exited"}
            /\ Len(databases) = Len(valid)
            /\ \A i \in 1..Len(valid) :
                  /\ databases[i].name = valid[i].name
                  /\ databases[i].db = valid[i].archive
            /\ \A i, j \in 1..Len(databases) :
                  databases[i].name = databases[j].name => i = j

\* C11's case: a corrupt archive visited before a valid one, and the valid
\* one alone registered and served
C11_Witness ==
    /\ RegistryBuilt /\ disk.dir /\ Len(disk.files) = 2
    /\ disk.files[1].archive.kind = "notadb"
    /\ disk.files[2].archive.kind = "mbtiles"
    /\ server = "listening"
    /\ Len(databases) = 1 /\ databases[1].name = disk.files[2].name

\* C12: the legacy archive dist/s57.mbtiles is consulted if and only if the
\* archive directory is absent: directory absent and legacy present gives
\* exactly one chart named s57, both absent gives the empty registry, and a
\* present directory (even one with no archive file) never loads the legacy
\* archive.
C12_RegistryFallback ==
    RegistryBuilt =>
        /\ (~disk.dir /\ disk.legacy.kind # "absent") =>
              /\ Len(databases) = 1
              /\ databases[1].name = "s57"
              /\ databases[1].db = disk.legacy
        /\ (~disk.dir /\ disk.legacy.kind = "absent") => databases = <<>>
        /\ disk.dir =>
              \A i \in 1..Len(databases) :
                 /\ databases[i].filePath[1] = "dist/mbtiles"
                 /\ databases[i].name \in
                       {disk.files[k].name : k \in 1..Len(disk.files)}

\* C12's case: the directory exists with no archive file while the legacy
\* archive exists, and the registry stays empty
C12_Witness ==
    /\ RegistryBuilt /\ disk.dir /\ disk.files = <<>>
    /\ disk.legacy.kind = "mbtiles"
    /\ databases = <<>> /\ server = "exited"

\* C13: every archive of the registry has passed the open-time validation,
\* and the set of open archive handles equals the set of handles the
\* registered charts hold.
C13_ValidatedAndReleased ==
    (RegistryBuilt /\ server = "listening") =>
        /\ \A i \in 1..Len(databases) : PassesValidation(databases[i].db)
        /\ OpenHandles(disk) =
              {databases[i].filePath : i \in 1..Len(databases)}

\* C14: load, then serve: a request is handled only once the registry is
\* built from the disk; no handler step of the listening server changes the
\* registry or an archive; and the response to an explicit tile request is
\* the handler's response on the registry as it was built, whatever was
\* handled before.
C14_LoadThenServe ==
    /\ [](last.form # "none" =>
            /\ server = "listening"
            /\ program = "tile-server" =>
                  /\ databases = loadMBTilesDatabases(disk)
                  /\ last.form = "explicit" =>
                        last.responses =
                           TileHandler(loadMBTilesDatabases(disk),
                                       last.chartName, last.zRaw, last.xRaw,
                                       last.yRaw).responses)
    /\ [][server = "listening" =>
            /\ server' = "listening"
            /\ databases' = databases
            /\ disk' = disk]_vars

\* C14's case: a chart listing answered by a server whose registry holds a
\* chart with a failing archive next to a readable one
C14_Witness ==
    /\ program = "tile-server" /\ server = "listening"
    /\ last.form = "charts"
    /\ Len(databases) = 2
    /\ databases[1].db.kind = "badtiles"
    /\ databases[2].db.kind = "mbtiles"

(***************************************************************************)
(* Properties of the converters.                                           *)
(***************************************************************************)
\* a source file has been handled by the running converter
FileHandled == conv.program \in Converters /\ conv.cur.chart # ""

\* the layers of the source file handled last with one of the outcomes
LayersWith(outcomes) ==
    {conv.cur.source.layers[i].layer :
       i \in {k \in 1..Len(conv.cur.source.layers) :
                conv.cur.source.layers[k].outcome \in outcomes}}

\* the intermediate files on disk that belong to the chart
FilesOfChart(chart) == {g \in conv.geojson : g.chart = chart}

\* the layers of the files of a list
LayersIn(list) == {list[i].layer : i \in 1..Len(list)}

\* the source file without its failing layers
WithoutFailing(source) ==
    [source EXCEPT !.layers =
       SelectSeq(@, LAMBDA l : l.outcome \notin {"fails", "garbled"})]

\* the packaging list the running converter builds for a source file
ListBuiltFor(chart, source) ==
    LET layers == ParseLayers(OgrinfoOutput(source))
    IN  IF conv.program = "convert-s57"
        THEN ExtractLayers(chart, source, layers, 1,
                           LoopStart({}, 0)).geojsonFiles
        ELSE ExtractLayersUnguarded(chart, source, layers, 1,
                                    LoopStart({}, 0)).geojsonFiles

\* C15: empty-layer pruning: no file of a layer whose extraction gave zero
\* features is in a list passed to the packaging command, and once
\* convertS57File has returned no intermediate file of such a layer is on
\* disk.
C15_EmptyLayerPruned ==
    /\ \A i \in 1..Len(conv.packaging) :
          \A k \in 1..Len(conv.packaging[i].files) :
             conv.packaging[i].files[k].features # <<>>
    /\ (FileHandled /\ conv.program = "convert-s57") =>
          \A g \in FilesOfChart(conv.cur.chart) :
             g.layer \notin LayersWith({"empty"})

\* C16: provenance tagging is additive: every feature of a tagged file
\* carries layer = its layer name and chart = its chart name, and every
\* attribute the feature had before tagging, one named layer or chart
\* included, has its original value.
C16_TaggingAdditive ==
    FileHandled =>
        \A i \in 1..Len(conv.cur.written) :
           LET f == conv.cur.written[i]
               before == FeaturesOf(f.layer)
           IN  \A k \in 1..Len(f.features) :
                  LET p == f.features[k].properties
                      q == PropertiesOf(before[k])
                  IN  /\ "layer" \in DOMAIN p /\ p["layer"] = f.layer
                      /\ "chart" \in DOMAIN p /\ p["chart"] = f.chart
                      /\ \A a \in DOMAIN q : p[a] = q[a]

\* C17: a layer whose extraction fails or whose output cannot be parsed is
\* excluded from packaging, and every other layer of the source file and
\* every other source file is processed as if the failing layer had not
\* existed.
C17_LayerFailureIsolated ==
    /\ (FileHandled /\ conv.cur.enumerated) =>
          /\ LayersIn(conv.cur.geojsonFiles)
                \cap LayersWith({"fails", "garbled"}) = {}
          /\ LayersWith(Outcomes \ {"fails", "garbled"})
                \subseteq LayersIn([i \in 1..Len(conv.cur.extracted) |->
                                      [layer |-> conv.cur.extracted[i]]])
          /\ conv.cur.geojsonFiles =
                ListBuiltFor(conv.cur.chart, WithoutFailing(conv.cur.source))
    /\ (conv.program \in Converters /\ conv.phase = "done") =>
          conv.done = conv.s57Files

\* C18: a failure of layer enumeration or of packaging for one chart skips
\* no later chart: the batch handles the discovered source files one after
\* another to the last, and each is enumerated, has every layer extracted
\* and, when a layer has features, is packaged into its own archive.
C18_BatchContinues ==
    conv.program = "convert-s57" =>
        /\ conv.phase = "files" =>
              /\ conv.next <= Len(conv.s57Files) + 1
              /\ conv.done = SubSeq(conv.s57Files, 1, conv.next - 1)
        /\ conv.phase = "done" => conv.done = conv.s57Files
        /\ FileHandled =>
              LET cur == conv.cur
                  own == chartMbtilesFile(cur.chart)
              IN  /\ ~cur.source.ogrinfoFails =>
                        /\ cur.enumerated
                        /\ cur.extracted =
                             [i \in 1..Len(cur.source.layers) |->
                                cur.source.layers[i].layer]
                  /\ LayersWith({"features"}) # {} =>
                        /\ cur.packaged
                        /\ conv.packaging[Len(conv.packaging)].output = own
                        /\ LayersIn(conv.packaging[Len(conv.packaging)].files)
                              = LayersWith({"features"})
                  /\ (cur.packaged /\ ~cur.source.tippecanoeFails) =>
                        own \in conv.archives

\* C18's case: the first chart's packaging failed, the second chart's
\* enumeration failed, and the run went on to its end
C18_Witness ==
    /\ conv.program = "convert-s57" /\ conv.phase = "done"
    /\ Len(conv.s57Files) = 2 /\ conv.done = conv.s57Files
    /\ Len(conv.packaging) = 1
    /\ conv.packaging[1].output = chartMbtilesFile(SourceNames[1])
    /\ conv.failed = {SourceNames[1], SourceNames[2]}
    /\ conv.cur.source.ogrinfoFails

\* C19 as stated: whatever the outcome and whatever the options, when the
\* processing of a chart has ended none of its intermediate files is on disk.
C19_NoIntermediateLeft ==
    (FileHandled /\ conv.program = "convert-s57") =>
        \A i \in 1..Len(conv.done) : FilesOfChart(conv.done[i]) = {}

\* C19, amended: without --keep-geojson, when the processing of a chart has
\* ended none of its intermediate files is on disk, whatever the outcome;
\* with --keep-geojson the files of its layers that had features and of its
\* layers whose output could not be parsed remain.
C19_NoIntermediateLeftUnlessKept ==
    (FileHandled /\ conv.program = "convert-s57") =>
        /\ ~conv.options.keepGeojson =>
              \A i \in 1..Len(conv.done) : FilesOfChart(conv.done[i]) = {}
        /\ conv.options.keepGeojson =>
              {g.layer : g \in FilesOfChart(conv.cur.chart)} =
                 LayersWith({"features", "garbled"})

\* C19's case: without --keep-geojson, a chart with an unparseable layer and
\* a layer with features whose packaging failed, and nothing left on disk
C19_Witness ==
    /\ FileHandled /\ conv.program = "convert-s57"
    /\ ~conv.options.keepGeojson
    /\ LayersWith({"garbled"}) # {} /\ LayersWith({"features"}) # {}
    /\ conv.cur.packaged /\ conv.cur.source.tippecanoeFails
    /\ conv.geojson = {}

\* C20: source discovery never crashes the run: with the input directory
\* absent the run reports it and ends without an uncaught exception; with
\* the directory present and no eligible source file the result is empty
\* and the run ends without invoking an external utility.
C20_DiscoveryNeverCrashes ==
    (conv.program \in Converters /\ conv.phase # "start") =>
        /\ ~conv.input.present =>
              /\ conv.phase = "done"
              /\ conv.reported
              /\ ~conv.uncaught
        /\ (conv.input.present /\ S57Files(conv.input) = <<>>) =>
              /\ conv.phase = "done"
              /\ conv.s57Files = <<>>
              /\ conv.utilities = 0
              /\ ~conv.uncaught

\* C21: for each chart the packaging utility is invoked at most once in a
\* run and never again after a failure; it is invoked exactly when the chart
\* has a layer with features; it is given exactly the files of that chart's
\* layers with features, each once and none of another chart, under one
\* layer name, for one archive named after the source file's base name.
C21_PackagedOncePerChart ==
    conv.program = "convert-s57" =>
        /\ \A i, j \in 1..Len(conv.packaging) :
              conv.packaging[i].output = conv.packaging[j].output => i = j
        /\ Len(conv.packaging) <= Len(conv.done)
        /\ FileHandled =>
              /\ conv.cur.packaged <=> LayersWith({"features"}) # {}
              /\ conv.cur.packaged =>
                    LET call == conv.packaging[Len(conv.packaging)]
                    IN  /\ call.output[2] = conv.cur.chart
                        /\ call.output[3] = ".mbtiles"
                        /\ call.layerName = conv.cur.chart
                        /\ \A k \in 1..Len(call.files) :
                              call.files[k].chart = conv.cur.chart
                        /\ LayersIn(call.files) = LayersWith({"features"})
                        /\ Len(call.files) =
                              Cardinality(LayersWith({"features"}))
              /\ ~conv.cur.packaged =>
                    \A i \in 1..Len(conv.packaging) :
                       conv.packaging[i].output[2] # conv.cur.chart

\* C21's case: two charts packaged in one run, the second from two layers
\* with features, and its one packaging command failed
C21_Witness ==
    /\ conv.program = "convert-s57" /\ conv.phase = "done"
    /\ Len(conv.packaging) = 2
    /\ conv.cur.chart = SourceNames[2]
    /\ Cardinality(LayersWith({"features"})) = 2
    /\ conv.cur.source.tippecanoeFails

(***************************************************************************)
(* Properties of the diagnostic endpoints and of the request life cycle.   *)
(***************************************************************************)
\* the body of the one JSON response of the last request
JsonBody == last.responses[1].json[1]

\* the archive answers the three queries of the chart listing
Listable(archive) == archive.kind = "mbtiles"

\* C22: the diagnostic endpoints reflect the registry: /health lists the
\* name and archive path of every registered chart, once each, in
\* registration order; /charts has one entry per registered chart, in
\* order, with its metadata map, its tile count and the ascending
\* duplicate-free list of the zoom levels present; a chart whose archive
\* cannot be read gets an error entry and the other entries are as they
\* would be without it.
C22_DiagnosticsReflectRegistry ==
    /\ last.form \in {"health", "charts"} =>
          /\ Len(last.responses) = 1
          /\ last.responses[1].status = 200
          /\ Len(last.responses[1].json) = 1
    /\ last.form = "health" =>
          /\ JsonBody.status = "ok"
          /\ Len(JsonBody.charts) = Len(databases)
          /\ \A i \in 1..Len(databases) :
                /\ JsonBody.charts[i].name = databases[i].name
                /\ JsonBody.charts[i].filePath = databases[i].filePath
    /\ last.form = "charts" =>
          /\ Len(JsonBody) = Len(databases)
          /\ \A i \in 1..Len(databases) :
                LET e == JsonBody[i]
                    db == databases[i].db
                    rows == MetadataRows(db)
                IN  /\ e.name = databases[i].name
                    /\ ~Listable(db) => DOMAIN e = {"name", "error"}
                    /\ Listable(db) =>
                          /\ DOMAIN e = {"name", "metadata", "tileCount",
                                         "zoomLevels"}
                          /\ DOMAIN e.metadata =
                                {rows[k][1] : k \in 1..Len(rows)}
                          /\ \A k \in 1..Len(rows) :
                                e.metadata[rows[k][1]] = rows[k][2]
                          /\ e.tileCount = Cardinality(db.tiles)
                          /\ {e.zoomLevels[k] : k \in 1..Len(e.zoomLevels)}
                                = {t.zoom_level : t \in db.tiles}
                          /\ \A k \in 1..(Len(e.zoomLevels) - 1) :
                                e.zoomLevels[k] < e.zoomLevels[k + 1]

\* C22's case: a chart listing of a registry whose first chart is readable,
\* with tiles at two zoom levels, and whose second chart is not
C22_Witness ==
    /\ last.form = "charts"
    /\ Len(databases) = 2
    /\ Listable(databases[1].db) /\ ~Listable(databases[2].db)
    /\ Len(JsonBody[1].zoomLevels) = 2
    /\ DOMAIN JsonBody[2] = {"name", "error"}

\* the steps of a request, in their order
StepOrder ==
    <<"Parsed", "Resolved", "CoordinateConverted", "Queried", "Responded">>

StepIndex(step) ==
    IF \E i \in 1..Len(StepOrder) : StepOrder[i] = step
    THEN CHOOSE i \in 1..Len(StepOrder) : StepOrder[i] = step
    ELSE 0

\* C24: every tile request, in either address form, passes through steps
\* of Parsed, Resolved, CoordinateConverted, Queried, Responded in that
\* order, skipping steps where it fails but never reordering or repeating
\* them, and ends with exactly one response sent.
C24_StepsInOrderOneResponse ==
    IsTileRequest(last) =>
        /\ \A i \in 1..Len(last.steps) : StepIndex(last.steps[i]) # 0
        /\ \A i \in 1..(Len(last.steps) - 1) :
              StepIndex(last.steps[i]) < StepIndex(last.steps[i + 1])
        /\ last.steps # <<>>
        /\ last.steps[Len(last.steps)] = "Responded"
        /\ Len(last.responses) = 1

\* C24's case: an explicit request for an unknown chart, which skips from
\* Parsed to Responded, on a server that has charts
C24_Witness ==
    /\ last.form = "explicit"
    /\ ~Registered(last.chartName)
    /\ last.steps = <<"Parsed", "Responded">>
    /\ last.responses[1].status = 404
    /\ Len(databases) = 2

\* C25: the tile server never accepts a request while the registry is
\* empty: an empty registry makes the process exit with status 1 before it
\* listens, so whenever a handler has run the registry holds a chart, and
\* the legacy handler never answers 'No charts available'.
C25_NeverServesEmptyRegistry ==
    program = "tile-server" =>
        /\ (server # "starting" /\ databases = <<>>) =>
              server = "exited" /\ ExitStatus = 1
        /\ server = "listening" => Len(databases) >= 1
        /\ last.form # "none" =>
              /\ Len(databases) >= 1
              /\ \A i \in 1..Len(last.responses) :
                    last.responses[i] # NoChartsResponse

\* C25's case: an archive directory with two files, neither a usable
\* archive, and the process exited without having listened
C25_Witness ==
    /\ program = "tile-server" /\ server = "exited"
    /\ disk.dir /\ Len(disk.files) = 2
    /\ databases = <<>> /\ last.form = "none"

(***************************************************************************)
(* Properties of the converter's options and report.                       *)
(***************************************************************************)
\* the command line names an output directory
OutputGiven ==
    \E i \in 1..(Len(conv.args) - 1) : conv.args[i] \in {"--output", "-o"}

\* the output directory the command line names
RequestedOutput ==
    PathOf(conv.args[(CHOOSE i \in 1..(Len(conv.args) - 1) :
                        conv.args[i] \in {"--output", "-o"}) + 1])

\* C23: after `convert --input I --output O` every archive the run
\* produced lies under O, and no directory outside O was created, emptied
\* or written to by the run.
C23_OutputHonoured ==
    (conv.program \in Converters /\ conv.phase # "start" /\ OutputGiven) =>
        /\ \A a \in conv.archives : Under(PathOf(a[1]), RequestedOutput)
        /\ \A d \in conv.touched : Under(d, RequestedOutput)

\* C26: at the end of a batch the reported success count is the number of
\* source files for which the run produced an archive: a chart whose
\* enumeration failed, that had no layer with features, or whose packaging
\* failed is not counted.
C26_SuccessCountIsArchives ==
    (conv.program = "convert-s57" /\ conv.phase = "done"
       /\ conv.s57Files # <<>>) =>
        conv.successCount = Cardinality(conv.archives)

(***************************************************************************)
(* LayerManager and the map it manages.                                    *)
(*                                                                         *)
(* An id is the sequence of the pieces of its text, so that one id can be  *)
(* the beginning of another.  The map holds its layers from the bottom to  *)
(* the top, each with the source it draws and its visibility, and its      *)
(* sources; the manager holds layerOrder, layerVisibility and sources.     *)
(* `call` is the method that ran last, with its argument and whether it    *)
(* threw; the list given to reorderLayers is not kept in it.  A method     *)
(* that throws leaves the manager and the map as they were.                *)
(***************************************************************************)
\* the longest list of ids a caller hands to reorderLayers
MaxOrder == 2

\* String.prototype.startsWith
startsWith(text, prefix) ==
    Len(prefix) <= Len(text) /\ SubSeq(text, 1, Len(prefix)) = prefix

\* the ids of the chart sources: the first is the beginning of the second
SourceIds == {<<"chart", "1">>, <<"chart", "1", "0">>}

\* no id: `undefined` as a beforeId, and the source of a background layer
NoId == <<>>

\* the layer of the base style
backgroundLayer == [id |-> <<"background">>, source |-> NoId, visible |-> TRUE]

\* the layer configurations a caller adds: one layer per chart source, its
\* id being the source id followed by the kind of the layer
LayerConfigs ==
    { [id |-> s \o <<"-", "depth-areas">>, source |-> s, visible |-> TRUE] :
        s \in SourceIds }

\* the ids a caller names
LayerIds == { c.id : c \in LayerConfigs } \cup {backgroundLayer.id}

\* Array.prototype.indexOf, counting from 1; 0 when the item is absent
indexOf(seq, item) ==
    IF \E i \in 1..Len(seq) : seq[i] = item
    THEN CHOOSE i \in 1..Len(seq) :
            seq[i] = item /\ \A j \in 1..(i - 1) : seq[j] # item
    ELSE 0

\* splice(index, 0, item): the item is put in front of the one at index
spliceIn(seq, index, item) ==
    SubSeq(seq, 1, index - 1) \o <<item>> \o SubSeq(seq, index, Len(seq))

\* the ids of the layers of the map, from the bottom to the top
MapOrder(mapLayers) == [i \in 1..Len(mapLayers) |-> mapLayers[i].id]

\* map.getLayer(id) finds a layer
getLayer(lm, id) == indexOf(MapOrder(lm.mapLayers), id) # 0

\* the source of the layer map.getLayer(id) returns
sourceOfLayer(lm, id) ==
    lm.mapLayers[indexOf(MapOrder(lm.mapLayers), id)].source

\* map.addLayer(layer, beforeId), the layer absent from the map and beforeId
\* absent or the id of a layer of the map
mapAddLayer(mapLayers, layer, beforeId) ==
    IF beforeId # NoId
    THEN spliceIn(mapLayers, indexOf(MapOrder(mapLayers), beforeId), layer)
    ELSE Append(mapLayers, layer)

\* map.removeLayer(id)
mapRemoveLayer(mapLayers, id) ==
    SelectSeq(mapLayers, LAMBDA layer : layer.id # id)

\* map.moveLayer(id, beforeId), both layers of the map: moving a layer in
\* front of itself changes nothing
mapMoveLayer(mapLayers, id, beforeId) ==
    IF id = beforeId THEN mapLayers
    ELSE LET layer == mapLayers[indexOf(MapOrder(mapLayers), id)]
             rest == mapRemoveLayer(mapLayers, id)
         IN mapAddLayer(rest, layer, beforeId)

\* object[key] = value
setKey(object, key, value) ==
    [k \in (DOMAIN object) \cup {key} |->
        IF k = key THEN value ELSE object[k]]

\* a manager just constructed on a map that shows the base style
NewLayerManager ==
    [instance |-> "LayerManager",
     mapLayers |-> <<backgroundLayer>>,
     mapSources |-> {},
     layerOrder |-> <<>>,
     layerVisibility |-> [id \in {} |-> TRUE],
     sources |-> {},
     call |-> [op |-> "constructor", arg |-> NoId, threw |-> FALSE]]

\* the manager after a method ran
called(lm, op, arg, threw) ==
    [lm EXCEPT !.call = [op |-> op, arg |-> arg, threw |-> threw]]

\* removeLayer(layerId): the first occurrence of the id leaves layerOrder
removeLayerOn(lm, layerId) ==
    [lm EXCEPT
        !.mapLayers = mapRemoveLayer(@, layerId),
        !.layerOrder =
            IF indexOf(@, layerId) # 0
            THEN SubSeq(@, 1, indexOf(@, layerId) - 1)
                    \o SubSeq(@, indexOf(@, layerId) + 1, Len(@))
            ELSE @,
        !.layerVisibility = [id \in (DOMAIN @) \ {layerId} |-> @[id]]]

\* the loop of reorderLayers from position i down to the first
RECURSIVE moveLayers(_, _, _)
moveLayers(mapLayers, order, i) ==
    IF i = 0 THEN mapLayers
    ELSE moveLayers(mapMoveLayer(mapLayers, order[i],
                                 IF i < Len(order) THEN order[i + 1]
                                 ELSE NoId),
                    order, i - 1)

\* removeLayer for each id of a list
RECURSIVE removeLayersOn(_, _)
removeLayersOn(lm, ids) ==
    IF ids = <<>> THEN lm
    ELSE removeLayersOn(removeLayerOn(lm, Head(ids)), Tail(ids))

\* removeSource(sourceId); map.removeSource keeps a source that a layer
\* of the map draws
removeSourceOn(lm, sourceId) ==
    LET layersToRemove ==
            SelectSeq(lm.layerOrder,
                      LAMBDA layerId : startsWith(layerId, sourceId))
        without == removeLayersOn(lm, layersToRemove)
    IN [without EXCEPT
          !.mapSources =
              IF \E i \in 1..Len(without.mapLayers) :
                    without.mapLayers[i].source = sourceId
              THEN @ ELSE @ \ {sourceId},
          !.sources = @ \ {sourceId}]

\* removeSource for each source of a set
RECURSIVE removeSourcesOn(_, _)
removeSourcesOn(lm, ids) ==
    IF ids = {} THEN lm
    ELSE LET id == CHOOSE s \in ids : TRUE
         IN removeSourcesOn(removeSourceOn(lm, id), ids \ {id})

InitLayers ==
    /\ disk = [dir |-> FALSE, files |-> <<>>, legacy |-> NoFile]
    /\ program = "browser"
    /\ server = "starting"
    /\ databases = <<>>
    /\ last = NoRequest
    /\ conv = NoConversion
    /\ layerManager = NewLayerManager
    /\ styleManager = NoComponent
    /\ monitor = NoComponent

\* addS57Source(sourceId, url)
addS57Source ==
    /\ layerManager.instance = "LayerManager"
    /\ UNCHANGED <<disk, program, server, databases, last, conv,
                   styleManager, monitor>>
    /\ \E sourceId \in SourceIds :
        layerManager' =
            called([layerManager EXCEPT !.mapSources = @ \cup {sourceId},
                                        !.sources = @ \cup {sourceId}],
                   "addS57Source", sourceId, FALSE)

\* addLayer(layerConfig, beforeId): the layer draws a source of the map, and
\* beforeId is absent or the id of a layer of the map
addLayer ==
    /\ layerManager.instance = "LayerManager"
    /\ UNCHANGED <<disk, program, server, databases, last, conv,
                   styleManager, monitor>>
    /\ \E layerConfig \in LayerConfigs, beforeId \in LayerIds \cup {NoId} :
        /\ layerConfig.source \in layerManager.mapSources
        /\ beforeId # NoId => getLayer(layerManager, beforeId)
        /\ layerManager' =
            IF getLayer(layerManager, layerConfig.id)
            THEN called(layerManager, "addLayer", layerConfig.id, FALSE)
            ELSE called(
                [layerManager EXCEPT
                    !.mapLayers = mapAddLayer(@, layerConfig, beforeId),
                    !.layerOrder =
                        IF beforeId # NoId /\ indexOf(@, beforeId) # 0
                        THEN spliceIn(@, indexOf(@, beforeId), layerConfig.id)
                        ELSE Append(@, layerConfig.id),
                    !.layerVisibility = setKey(@, layerConfig.id, TRUE)],
                "addLayer", layerConfig.id, FALSE)

removeLayer ==
    /\ layerManager.instance = "LayerManager"
    /\ UNCHANGED <<disk, program, server, databases, last, conv,
                   styleManager, monitor>>
    /\ \E layerId \in LayerIds :
        layerManager' = called(removeLayerOn(layerManager, layerId),
                               "removeLayer", layerId, FALSE)

\* reorderLayers(order), the list at most MaxOrder ids long: it throws when
\* an id is not a layer of the map
reorderLayers ==
    /\ layerManager.instance = "LayerManager"
    /\ UNCHANGED <<disk, program, server, databases, last, conv,
                   styleManager, monitor>>
    /\ \E order \in UNION { [1..n -> LayerIds] : n \in 0..MaxOrder } :
        layerManager' =
            IF \E i \in 1..Len(order) : ~getLayer(layerManager, order[i])
            THEN called(layerManager, "reorderLayers", NoId, TRUE)
            ELSE called(
                [layerManager EXCEPT
                    !.mapLayers = moveLayers(@, order, Len(order)),
                    !.layerOrder = order],
                "reorderLayers", NoId, FALSE)

\* setLayerVisibility(layerId, visible): it throws when the id is not a
\* layer of the map
setLayerVisibility ==
    /\ layerManager.instance = "LayerManager"
    /\ UNCHANGED <<disk, program, server, databases, last, conv,
                   styleManager, monitor>>
    /\ \E layerId \in LayerIds, visible \in {"true", "false", "undefined"} :
        LET newVisibility ==
                IF visible # "undefined" THEN visible = "true"
                ELSE IF layerId \in DOMAIN layerManager.layerVisibility
                     THEN ~layerManager.layerVisibility[layerId]
                     ELSE TRUE
        IN layerManager' =
            IF ~getLayer(layerManager, layerId)
            THEN called(layerManager, "setLayerVisibility", layerId, TRUE)
            ELSE called(
                [layerManager EXCEPT
                    !.mapLayers =
                        [i \in 1..Len(@) |->
                            IF @[i].id = layerId
                            THEN [@[i] EXCEPT !.visible = newVisibility]
                            ELSE @[i]],
                    !.layerVisibility = setKey(@, layerId, newVisibility)],
                "setLayerVisibility", layerId, FALSE)

removeSource ==
    /\ layerManager.instance = "LayerManager"
    /\ UNCHANGED <<disk, program, server, databases, last, conv,
                   styleManager, monitor>>
    /\ \E sourceId \in SourceIds :
        layerManager' = called(removeSourceOn(layerManager, sourceId),
                               "removeSource", sourceId, FALSE)

\* cleanup(): every layer of layerOrder and then every source is removed,
\* and the three records are reset
cleanup ==
    /\ layerManager.instance = "LayerManager"
    /\ UNCHANGED <<disk, program, server, databases, last, conv,
                   styleManager, monitor>>
    /\ LET without ==
            removeSourcesOn(
                removeLayersOn(layerManager, layerManager.layerOrder),
                layerManager.sources)
       IN layerManager' =
            called([without EXCEPT !.layerVisibility = [id \in {} |-> TRUE],
                                   !.layerOrder = <<>>,
                                   !.sources = {}],
                   "cleanup", NoId, FALSE)

NextLayers ==
    \/ addS57Source
    \/ addLayer
    \/ removeLayer
    \/ reorderLayers
    \/ setLayerVisibility
    \/ removeSource
    \/ cleanup

SpecLayers == InitLayers /\ [][NextLayers]_vars

(***************************************************************************)
(* Properties of the LayerManager.                                         *)
(***************************************************************************)
\* a list names no id twice
NoDuplicate(seq) ==
    \A i, j \in 1..Len(seq) : seq[i] = seq[j] => i = j

\* C27: after any sequence of addLayer, removeLayer, reorderLayers,
\* setLayerVisibility, removeSource and cleanup calls, layerOrder holds no
\* id twice, the ids of layerOrder are exactly the keys of layerVisibility,
\* and every id of layerOrder is a layer of the map.
C27_LayerBookkeeping ==
    layerManager.instance = "LayerManager" =>
        /\ NoDuplicate(layerManager.layerOrder)
        /\ Range(layerManager.layerOrder) = DOMAIN layerManager.layerVisibility
        /\ \A id \in Range(layerManager.layerOrder) :
            getLayer(layerManager, id)

\* the layers the manager tracks that the map holds
TrackedLayers(lm) == { id \in Range(lm.layerOrder) : getLayer(lm, id) }

\* C28: removeSource(s) removes every tracked layer that draws source s,
\* and a tracked layer that draws another source stays on the map, stays
\* tracked and keeps its visibility record.
C28_RemoveSourceExactly ==
    [][(layerManager.instance = "LayerManager"
        /\ layerManager'.call.op = "removeSource") =>
          \A id \in TrackedLayers(layerManager) :
            IF sourceOfLayer(layerManager, id) = layerManager'.call.arg
            THEN /\ ~getLayer(layerManager', id)
                 /\ id \notin Range(layerManager'.layerOrder)
            ELSE /\ getLayer(layerManager', id)
                 /\ id \in Range(layerManager'.layerOrder)
                 /\ (id \in DOMAIN layerManager.layerVisibility =>
                        /\ id \in DOMAIN layerManager'.layerVisibility
                        /\ layerManager'.layerVisibility[id]
                            = layerManager.layerVisibility[id])]_vars

(***************************************************************************)
(* The renderer's loadS57Tiles and updateStyle, with the StyleManager.     *)
(*                                                                         *)
(* The map holds layers and sources as above.  map.setStyle puts the new   *)
(* style in place at once; the map announces a changed style with a        *)
(* 'styledata' event at a later frame, which is an action of its own and   *)
(* runs the listeners registered with map.once, each holding the sources   *)
(* it saved.  `loadedBefore` is the set of sources that loadS57Tiles had   *)
(* loaded when updateStyle was last called.                                *)
(***************************************************************************)
\* the most listeners that wait for one 'styledata' event
MaxListeners == 2

\* the layers generateS57Layers makes for a source, in its order
S57LayerKinds ==
    <<"water-areas", "land-areas", "depth-areas", "depth-contours",
      "coastlines", "soundings", "navigation-points", "hazards", "labels">>

generateS57Layers(sourceId) ==
    [i \in 1..Len(S57LayerKinds) |->
        [id |-> sourceId \o <<"-", S57LayerKinds[i]>>,
         source |-> sourceId,
         visible |-> TRUE]]

\* generateThemeStyle: a style without sources, its one layer the background
generateThemeStyle(theme) ==
    [sources |-> {}, layers |-> <<backgroundLayer>>]

\* a renderer just initialized: the map shows the base style
NewStyleManager ==
    [instance |-> "StyleManager",
     currentTheme |-> "day",
     mapLayers |-> <<backgroundLayer>>,
     mapSources |-> {},
     sources |-> {},
     listeners |-> <<>>,
     changed |-> FALSE,
     switched |-> FALSE,
     loadedBefore |-> {}]

\* the loop of applyS57Styles: each layer is added unless the map has it
RECURSIVE addLayersIfAbsent(_, _)
addLayersIfAbsent(sm, layers) ==
    IF layers = <<>> THEN sm
    ELSE addLayersIfAbsent(
            IF getLayer(sm, Head(layers).id) THEN sm
            ELSE [sm EXCEPT !.mapLayers = Append(@, Head(layers)),
                            !.changed = TRUE],
            Tail(layers))

\* applyS57Styles(sourceId)
applyS57Styles(sm, sourceId) ==
    addLayersIfAbsent(sm, generateS57Layers(sourceId))

\* applyStylesToMap: the sources are saved, the style is set and a listener
\* for the next 'styledata' event is registered
applyStylesToMap(sm) ==
    LET style == generateThemeStyle(sm.currentTheme)
        sources == sm.mapSources
    IN [sm EXCEPT !.mapSources = style.sources,
                  !.mapLayers = style.layers,
                  !.changed = TRUE,
                  !.listeners = Append(@, sources)]

\* the listeners of a 'styledata' event run in the order of registration:
\* each adds the sources it saved that the map lacks
RECURSIVE runListeners(_, _)
runListeners(mapSources, listeners) ==
    IF listeners = <<>> THEN mapSources
    ELSE runListeners(mapSources \cup Head(listeners), Tail(listeners))

InitStyle ==
    /\ disk = [dir |-> FALSE, files |-> <<>>, legacy |-> NoFile]
    /\ program = "browser"
    /\ server = "starting"
    /\ databases = <<>>
    /\ last = NoRequest
    /\ conv = NoConversion
    /\ layerManager = NoComponent
    /\ styleManager = NewStyleManager
    /\ monitor = NoComponent

\* loadS57Tiles(sourceId, url): layerManager.addS57Source, then
\* styleManager.applyS57Styles
loadS57Tiles ==
    /\ styleManager.instance = "StyleManager"
    /\ UNCHANGED <<disk, program, server, databases, last, conv,
                   layerManager, monitor>>
    /\ \E sourceId \in SourceIds :
        styleManager' =
            applyS57Styles(
                [styleManager EXCEPT
                    !.changed = @ \/ sourceId \notin styleManager.mapSources,
                    !.mapSources = @ \cup {sourceId},
                    !.sources = @ \cup {sourceId}],
                sourceId)

\* updateStyle(theme): applyTheme(theme) sets currentTheme, refreshStyles()
\* keeps it, and both end in applyStylesToMap
updateStyle ==
    /\ styleManager.instance = "StyleManager"
    /\ UNCHANGED <<disk, program, server, databases, last, conv,
                   layerManager, monitor>>
    /\ Len(styleManager.listeners) < MaxListeners
    /\ \E theme \in {"day", "night", "dusk", "undefined"} :
        LET sm == [styleManager EXCEPT !.switched = TRUE,
                                       !.loadedBefore = styleManager.sources]
        IN styleManager' =
            IF theme # "undefined"
            THEN applyStylesToMap([sm EXCEPT !.currentTheme = theme])
            ELSE applyStylesToMap(sm)

\* the map fires 'styledata' for a style that changed
styledata ==
    /\ styleManager.instance = "StyleManager"
    /\ UNCHANGED <<disk, program, server, databases, last, conv,
                   layerManager, monitor>>
    /\ styleManager.changed
    /\ LET restored == runListeners(styleManager.mapSources,
                                    styleManager.listeners)
       IN styleManager' =
            [styleManager EXCEPT !.mapSources = restored,
                                 !.listeners = <<>>,
                                 !.changed = restored # styleManager.mapSources]

NextStyle ==
    \/ loadS57Tiles
    \/ updateStyle
    \/ styledata

SpecStyle == InitStyle /\ [][NextStyle]_vars

(***************************************************************************)
(* Properties of the theme switch.                                         *)
(***************************************************************************)
\* every layer applyS57Styles adds for a source is on the map
S57LayersPresent(sm, sourceId) ==
    \A i \in 1..Len(S57LayerKinds) :
        getLayer(sm, generateS57Layers(sourceId)[i].id)

\* a style change has been asked for and its listeners have run
StyleChangeCompleted ==
    /\ styleManager.instance = "StyleManager"
    /\ styleManager.switched
    /\ styleManager.listeners = <<>>

\* C29: once a style change has completed, every source that loadS57Tiles
\* had loaded before updateStyle was called is on the map, and so is every
\* S57 layer applyS57Styles had added for it.
C29_ThemeSwitchKeepsCharts ==
    StyleChangeCompleted =>
        \A sourceId \in styleManager.loadedBefore :
            /\ sourceId \in styleManager.mapSources
            /\ S57LayersPresent(styleManager, sourceId)

(***************************************************************************)
(* PerformanceMonitor.                                                     *)
(*                                                                         *)
(* Each call of startPerformanceLoop makes one loop, numbered in the order *)
(* of the calls; a loop has at most one `update` waiting in the timer      *)
(* queue, and `pending` is the set of loops that have one.  The handle     *)
(* setTimeout returns is not kept, so nothing takes a callback out of the  *)
(* queue but its firing.  `stopped` is the set of loops started before a   *)
(* stop(), and `staleUpdate` tells that one of them performed an update    *)
(* after that stop().                                                      *)
(***************************************************************************)
\* the most loops one monitor starts
MaxLoops == 3

\* the names of the timers callers start
TimerNames == {"render", "loadTiles"}

\* the values performance.memory.usedJSHeapSize shows
HeapSizes == {10, 20}

\* initializeStats()
initializeStats == [usedMemory |-> 0, renderTime |-> 0]

\* a monitor just constructed
NewMonitor ==
    [instance |-> "PerformanceMonitor",
     isRunning |-> FALSE,
     timers |-> {},
     stats |-> initializeStats,
     loops |-> 0,
     pending |-> {},
     stopped |-> {},
     staleUpdate |-> FALSE]

\* the closure `update` of a loop, called by startPerformanceLoop or by the
\* timer: it returns when the monitor is not running, else it updates the
\* statistics and sets the next timer
update(pm, loop, usedJSHeapSize) ==
    IF ~pm.isRunning THEN [pm EXCEPT !.pending = @ \ {loop}]
    ELSE [pm EXCEPT
            !.stats.usedMemory = usedJSHeapSize,
            !.pending = @ \cup {loop},
            !.staleUpdate = @ \/ loop \in pm.stopped]

\* stop()
stopOn(pm) ==
    [pm EXCEPT !.isRunning = FALSE,
               !.stopped = 1..pm.loops]

InitMonitor ==
    /\ disk = [dir |-> FALSE, files |-> <<>>, legacy |-> NoFile]
    /\ program = "browser"
    /\ server = "starting"
    /\ databases = <<>>
    /\ last = NoRequest
    /\ conv = NoConversion
    /\ layerManager = NoComponent
    /\ styleManager = NoComponent
    /\ monitor = NewMonitor

\* start(): a monitor that is not running starts a loop, whose `update`
\* runs at once
start ==
    /\ monitor.instance = "PerformanceMonitor"
    /\ UNCHANGED <<disk, program, server, databases, last, conv,
                   layerManager, styleManager>>
    /\ monitor.isRunning \/ monitor.loops < MaxLoops
    /\ \E usedJSHeapSize \in HeapSizes :
        monitor' =
            IF monitor.isRunning THEN monitor
            ELSE update([monitor EXCEPT !.isRunning = TRUE,
                                        !.loops = @ + 1],
                        monitor.loops + 1, usedJSHeapSize)

stop ==
    /\ monitor.instance = "PerformanceMonitor"
    /\ UNCHANGED <<disk, program, server, databases, last, conv,
                   layerManager, styleManager>>
    /\ monitor' = stopOn(monitor)

\* cleanup(): stop(), timers.clear() and resetStats()
monitorCleanup ==
    /\ monitor.instance = "PerformanceMonitor"
    /\ UNCHANGED <<disk, program, server, databases, last, conv,
                   layerManager, styleManager>>
    /\ monitor' = [stopOn(monitor) EXCEPT !.timers = {},
                                          !.stats = initializeStats]

\* the timer of a loop fires and calls its `update`
timerFires ==
    /\ monitor.instance = "PerformanceMonitor"
    /\ UNCHANGED <<disk, program, server, databases, last, conv,
                   layerManager, styleManager>>
    /\ \E loop \in monitor.pending, usedJSHeapSize \in HeapSizes :
        monitor' = update(monitor, loop, usedJSHeapSize)

startTimer ==
    /\ monitor.instance = "PerformanceMonitor"
    /\ UNCHANGED <<disk, program, server, databases, last, conv,
                   layerManager, styleManager>>
    /\ \E name \in TimerNames :
        monitor' = [monitor EXCEPT !.timers = @ \cup {name}]

endTimer ==
    /\ monitor.instance = "PerformanceMonitor"
    /\ UNCHANGED <<disk, program, server, databases, last, conv,
                   layerManager, styleManager>>
    /\ \E name \in TimerNames, duration \in {5} :
        monitor' =
            IF name \notin monitor.timers THEN monitor
            ELSE [monitor EXCEPT
                    !.timers = @ \ {name},
                    !.stats.renderTime =
                        IF name = "render" THEN duration ELSE @]

NextMonitor ==
    \/ start
    \/ stop
    \/ monitorCleanup
    \/ timerFires
    \/ startTimer
    \/ endTimer

SpecMonitor == InitMonitor /\ [][NextMonitor]_vars

(***************************************************************************)
(* Properties of the PerformanceMonitor.                                   *)
(***************************************************************************)
\* C30: whatever the order of start(), stop(), cleanup() and the timer
\* callbacks, a running monitor has at most one update callback pending,
\* and no loop started before a stop() performs an update after it.
C30_OneMonitoringLoop ==
    monitor.instance = "PerformanceMonitor" =>
        /\ monitor.isRunning => Cardinality(monitor.pending) <= 1
        /\ ~monitor.staleUpdate

====
